---- MODULE Spec2Model ----
(***************************************************************************)
(* A model of the p5go bootstrap: Run (resolve the mount point, clear it,  *)
(* load the p5.js library when absent, construct the p5 instance with a    *)
(* sketch closure, bind the registered handlers, validate), the builder    *)
(* functions Preload..KeyTyped that produce the registrations, and the     *)
(* adapters the p5 runtime calls back afterwards.                          *)
(*                                                                         *)
(* Go compiled to js/wasm runs on the single thread of the host event      *)
(* loop: a goroutine keeps the thread until it blocks or returns, and host *)
(* callbacks (script onload, an asynchronous call of the sketch closure,   *)
(* the runtime calling an installed adapter) run only while no goroutine   *)
(* holds the thread.  `active` is the session whose Run holds the thread,  *)
(* 0 when the thread is with the host.                                     *)
(***************************************************************************)
EXTENDS Integers, Sequences, FiniteSets, TLC

VARIABLES
    prog,          \* the caller's program: the Run calls it makes, in order
    pc,            \* per Run call: the position in Run
    active,        \* the session whose goroutine holds the thread, 0 = host
    container,     \* per Run call: the value querySelector returned
    innerHTML,     \* content of the mount element
    headScripts,   \* script elements appended to document.head (by session)
    scriptLoaded,  \* script elements whose load event has fired
    p5Defined,     \* whether the host global "p5" is defined
    ch,            \* per Run call: the onload channel
    canvas,        \* per Run call: the Canvas c
    sketch,        \* per Run call: the sketch closure (pending / called how)
    inst,          \* per Run call: the external p5 instance New created
    result,        \* per Run call: what Run returned
    trace,         \* per Run call: the steps executed, in order
    fault,         \* a Go panic happened
    calls,         \* per caller callback: how often it has been called
    lastCall,      \* the most recent callback invocation
    events,        \* host events delivered so far
    p5Instance,    \* older API: the package variable p5Instance
    eventHandlers, \* older API: the package map eventHandlers
    global         \* older API: the names the host global object defines

vars == <<prog, pc, active, container, innerHTML, headScripts, scriptLoaded,
          p5Defined, ch, canvas, sketch, inst, result, trace, fault, calls,
          lastCall, events, p5Instance, eventHandlers, global>>

\* the state of the older, package-level API (Init / SetEventHandler)
packageVars == <<p5Instance, eventHandlers, global>>

----------------------------------------------------------------------------
(* Bounds of the model *)

\* longest registration list a Run call is given
MaxRegs == 3
\* host events (pointer updates, adapter invocations) delivered in a run
MaxEvents == 2
\* the runtime passes 0..MaxArgs event arguments to an adapter
MaxArgs == 1

\* caller callbacks
Callbacks == {"fnA", "fnB"}
\* hook names the enumerated registration lists draw from
InputHooks == {"setup", "draw", "mousePressed"}
\* selectors the caller may pass; the document holds one element, #container
Selectors == {"#container", "#missing"}

----------------------------------------------------------------------------
(* Values *)

Null == "null"
Undefined == "undefined"
\* js.Undefined() held where an instance reference (1, 2, ..) is expected
UndefinedRef == 0
NoCanvas == [id |-> 0]
NoInst == [id |-> 0]
NoCall == [handler |-> "none"]
NoEvent == [none |-> TRUE]
EmptyMap == <<>>

\* m[key] = val, inserting or overwriting (Go map assignment, JS property set)
MapSet(m, key, val) ==
    [k \in (DOMAIN m) \cup {key} |-> IF k = key THEN val ELSE m[k]]

\* the closed set of hook names
HookNames ==
    {"preload", "setup", "draw", "mouseMoved", "mouseDragged", "mousePressed",
     "mouseReleased", "mouseClicked", "doubleClicked", "mouseWheel",
     "keyPressed", "keyReleased", "keyTyped"}

\* error values of Run
\* Run returning nil where the container is null
ErrNotMatchNil(query) == "nil"

\* errors.New(fmt.Sprintf("%s is not match", query)), on the selectors
ErrNotMatch(query) ==
    CASE query = "#container" -> "#container is not match"
      [] query = "#missing" -> "#missing is not match"
ErrNotLoaded == "p5.js is not loaded"
ErrNoSetup == "setup function is not defined"
ErrNoDraw == "draw function is not defined"
Nil == "nil"
Pending == "pending"

----------------------------------------------------------------------------
(* Builders: each returns a Func, a closure over the caller's handler that, *)
(* applied to a Canvas, stores one adapter under its hook name.  `kind`     *)
(* tells the two adapter bodies apart: "plain" calls handler(c), "mouse"    *)
(* builds the event value first and calls handler(c, e).                    *)

Preload(handler) == [hook |-> "preload", kind |-> "plain", handler |-> handler]
Setup(handler) == [hook |-> "setup", kind |-> "plain", handler |-> handler]
Draw(handler) == [hook |-> "draw", kind |-> "plain", handler |-> handler]
MouseMoved(handler) == [hook |-> "mouseMoved", kind |-> "plain", handler |-> handler]
MouseDragged(handler) == [hook |-> "mouseDragged", kind |-> "mouse", handler |-> handler]
MousePressed(handler) == [hook |-> "mousePressed", kind |-> "mouse", handler |-> handler]
MouseReleased(handler) == [hook |-> "mouseReleased", kind |-> "mouse", handler |-> handler]
MouseClicked(handler) == [hook |-> "mouseClicked", kind |-> "mouse", handler |-> handler]
DoubleClicked(handler) == [hook |-> "doubleClicked", kind |-> "mouse", handler |-> handler]
MouseWheel(handler) == [hook |-> "mouseWheel", kind |-> "plain", handler |-> handler]
KeyPressed(handler) == [hook |-> "keyPressed", kind |-> "plain", handler |-> handler]
KeyReleased(handler) == [hook |-> "keyReleased", kind |-> "plain", handler |-> handler]
\* KeyTyped writing the key of KeyPressed
KeyTypedAsKeyPressed(handler) == [hook |-> "keyPressed", kind |-> "plain", handler |-> handler]

KeyTyped(handler) == [hook |-> "keyTyped", kind |-> "plain", handler |-> handler]

\* the builder for a hook name
BuilderFor(hook, handler) ==
    CASE hook = "preload" -> Preload(handler)
      [] hook = "setup" -> Setup(handler)
      [] hook = "draw" -> Draw(handler)
      [] hook = "mouseMoved" -> MouseMoved(handler)
      [] hook = "mouseDragged" -> MouseDragged(handler)
      [] hook = "mousePressed" -> MousePressed(handler)
      [] hook = "mouseReleased" -> MouseReleased(handler)
      [] hook = "mouseClicked" -> MouseClicked(handler)
      [] hook = "doubleClicked" -> DoubleClicked(handler)
      [] hook = "mouseWheel" -> MouseWheel(handler)
      [] hook = "keyPressed" -> KeyPressed(handler)
      [] hook = "keyReleased" -> KeyReleased(handler)
      [] hook = "keyTyped" -> KeyTyped(handler)

\* the exported builder functions, by their Go names
BuilderNames ==
    {"Preload", "Setup", "Draw", "MouseMoved", "MouseDragged", "MousePressed",
     "MouseReleased", "MouseClicked", "DoubleClicked", "MouseWheel",
     "KeyPressed", "KeyReleased", "KeyTyped"}

\* the call name(handler) of an exported builder
Builder(name, handler) ==
    CASE name = "Preload" -> Preload(handler)
      [] name = "Setup" -> Setup(handler)
      [] name = "Draw" -> Draw(handler)
      [] name = "MouseMoved" -> MouseMoved(handler)
      [] name = "MouseDragged" -> MouseDragged(handler)
      [] name = "MousePressed" -> MousePressed(handler)
      [] name = "MouseReleased" -> MouseReleased(handler)
      [] name = "MouseClicked" -> MouseClicked(handler)
      [] name = "DoubleClicked" -> DoubleClicked(handler)
      [] name = "MouseWheel" -> MouseWheel(handler)
      [] name = "KeyPressed" -> KeyPressed(handler)
      [] name = "KeyReleased" -> KeyReleased(handler)
      [] name = "KeyTyped" -> KeyTyped(handler)

\* ApplyFunc as it would be if an existing entry were kept, not overwritten
ApplyFuncKeepFirst(f, c, fn) ==
    IF f.hook \in DOMAIN c.funcHandlers THEN c
    ELSE [c EXCEPT !.funcHandlers =
            MapSet(@, f.hook,
                   [fn |-> fn, handler |-> f.handler, kind |-> f.kind, c |-> c.id])]

\* a Func that replaces the whole registry by its one entry
ApplyFuncResetsRegistry(f, c, fn) ==
    [c EXCEPT !.funcHandlers =
        MapSet(EmptyMap, f.hook,
               [fn |-> fn, handler |-> f.handler, kind |-> f.kind, c |-> c.id])]

\* adapters that all call the handler with the Canvas of the first session
ApplyFuncSharedCanvas(f, c, fn) ==
    [c EXCEPT !.funcHandlers =
        MapSet(@, f.hook,
               [fn |-> fn, handler |-> f.handler, kind |-> f.kind, c |-> 1])]

\* f(c): the Func stores the js.Func that js.FuncOf returns, a new one at
\* every call, under its hook name.  fn identifies the js.Func: inside the
\* sketch closure the position in the call's list of the Func that created
\* it, FreshFn for a Func applied at any other time.
ApplyFunc(f, c, fn) ==
    [c EXCEPT !.funcHandlers =
        MapSet(@, f.hook,
               [fn |-> fn, handler |-> f.handler, kind |-> f.kind, c |-> c.id])]

\* the largest number of a non-empty set of numbers
MaxOf(S) == CHOOSE x \in S : \A y \in S : y <= x

\* the identities of the js.Funcs a registry or an instance holds
FuncIds(m) == {m[h].fn : h \in DOMAIN m}

\* the identity of the js.Func a further js.FuncOf call returns: one that no
\* js.Func in the registry of c or among the properties props has
FreshFn(c, props) ==
    1 + MaxOf(FuncIds(c.funcHandlers) \cup FuncIds(props) \cup {0})

\* for _, f := range fs { f(c) }, from position i on
RECURSIVE ApplyAll(_, _, _)
ApplyAll(fs, c, i) ==
    IF i > Len(fs) THEN c ELSE ApplyAll(fs, ApplyFunc(fs[i], c, i), i + 1)

\* the range over the registry ending one entry early
RECURSIVE InstallAllButLast(_, _, _)
InstallAllButLast(props, handlers, order) ==
    IF Len(order) <= 1 THEN props
    ELSE InstallAllButLast(MapSet(props, Head(order), handlers[Head(order)]),
                           handlers, Tail(order))

\* for method, handler := range c.funcHandlers { p5Instance.Set(method, handler) }
\* in the iteration order `order` (a sequence of the map's keys)
RECURSIVE InstallAll(_, _, _)
InstallAll(props, handlers, order) ==
    IF order = <<>> THEN props
    ELSE InstallAll(MapSet(props, Head(order), handlers[Head(order)]),
                    handlers, Tail(order))

\* the iteration orders Go may choose for a map with key set S
RECURSIVE Orders(_)
Orders(S) ==
    IF S = {} THEN {<<>>}
    ELSE UNION {{<<k>> \o o : o \in Orders(S \ {k})} : k \in S}

----------------------------------------------------------------------------
(* Canvas.Validate *)

\* a registry read that never reports a missing handler
HandlerIsUndefinedNever(c, name) == FALSE

\* c.funcHandlers[name].IsUndefined(): a missing key reads as the zero
\* js.Func, whose Value is undefined
HandlerIsUndefined(c, name) == name \notin DOMAIN c.funcHandlers

\* Validate without the draw check
ValidateSkipsDraw(c) ==
    IF c.p5Instance = UndefinedRef THEN ErrNotLoaded
    ELSE IF HandlerIsUndefined(c, "setup") THEN ErrNoSetup
    ELSE Nil

\* Validate with the draw check ahead of the setup check
ValidateDrawFirst(c) ==
    IF c.p5Instance = UndefinedRef THEN ErrNotLoaded
    ELSE IF HandlerIsUndefined(c, "draw") THEN ErrNoDraw
    ELSE IF HandlerIsUndefined(c, "setup") THEN ErrNoSetup
    ELSE Nil

\* Validate without the instance check
ValidateNoInstanceCheck(c) ==
    IF HandlerIsUndefined(c, "setup") THEN ErrNoSetup
    ELSE IF HandlerIsUndefined(c, "draw") THEN ErrNoDraw
    ELSE Nil

Validate(c) ==
    IF c.p5Instance = UndefinedRef THEN ErrNotLoaded
    ELSE IF HandlerIsUndefined(c, "setup") THEN ErrNoSetup
    ELSE IF HandlerIsUndefined(c, "draw") THEN ErrNoDraw
    ELSE Nil

----------------------------------------------------------------------------
(* The host document *)

\* document.querySelector(query)
QuerySelector(query) == IF query = "#container" THEN "container" ELSE Null

\* the null check left out
ResolveIsNullNever(cont) == FALSE

\* container.IsNull(): Run returns the error, or goes on to clear
ResolveIsNull(cont) == cont = Null

\* the pointer properties of a fresh instance, and the pointer states the
\* runtime moves an instance through
InitPointer ==
    [mouseX |-> 0, mouseY |-> 0, mouseButton |-> "#0", mouseIsPressed |-> FALSE]

Pointers ==
    {InitPointer,
     [mouseX |-> 1, mouseY |-> 2, mouseButton |-> "right", mouseIsPressed |-> TRUE],
     [mouseX |-> 2, mouseY |-> 1, mouseButton |-> "center", mouseIsPressed |-> FALSE]}

----------------------------------------------------------------------------
(* The caller *)

Sessions == DOMAIN prog

\* the Funcs the enumerated callers build
InputFuncs == {BuilderFor(h, cb) : h \in InputHooks, cb \in Callbacks}

RECURSIVE SeqsUpTo(_, _)
SeqsUpTo(S, n) ==
    IF n = 0 THEN {<<>>}
    ELSE LET shorter == SeqsUpTo(S, n - 1)
         IN shorter \cup {Append(s, x) : s \in shorter, x \in S}

RunCalls == [query : Selectors, fs : SeqsUpTo(InputFuncs, MaxRegs)]

Append1(f, r, x) == [f EXCEPT ![r] = Append(@, x)]

Init ==
    /\ prog \in {<<call>> : call \in RunCalls}
    /\ pc = [r \in DOMAIN prog |-> "idle"]
    /\ active = 0
    /\ container = [r \in DOMAIN prog |-> Undefined]
    /\ innerHTML = "stale"
    /\ headScripts = {}
    /\ scriptLoaded = {}
    /\ p5Defined \in BOOLEAN
    /\ ch = [r \in DOMAIN prog |-> "nil"]
    /\ canvas = [r \in DOMAIN prog |-> NoCanvas]
    /\ sketch = [r \in DOMAIN prog |-> "none"]
    /\ inst = [r \in DOMAIN prog |-> NoInst]
    /\ result = [r \in DOMAIN prog |-> Pending]
    /\ trace = [r \in DOMAIN prog |-> <<>>]
    /\ fault = FALSE
    /\ calls = [cb \in Callbacks |-> 0]
    /\ lastCall = NoCall
    /\ events = 0
    /\ p5Instance = UndefinedRef
    /\ eventHandlers = EmptyMap
    /\ global = {}

----------------------------------------------------------------------------
(* Run *)

\* Run is called: document.querySelector(query), and the return when the
\* container is null.  The caller makes its Run calls in program order; a
\* later call can start while an earlier one is parked in the library wait.
RunResolve(r) ==
    /\ ~fault
    /\ active = 0
    /\ pc[r] = "idle"
    /\ \A q \in Sessions : q < r => pc[q] # "idle"
    /\ LET cont == QuerySelector(prog[r].query)
       IN /\ container' = [container EXCEPT ![r] = cont]
          /\ IF ResolveIsNull(cont)
             THEN /\ trace' = [trace EXCEPT ![r] = @ \o <<"Resolve", "Return">>]
                  /\ result' = [result EXCEPT ![r] = ErrNotMatch(prog[r].query)]
                  /\ pc' = [pc EXCEPT ![r] = "done"]
                  /\ active' = 0
             ELSE /\ trace' = Append1(trace, r, "Resolve")
                  /\ pc' = [pc EXCEPT ![r] = "clear"]
                  /\ active' = r
                  /\ UNCHANGED result
    /\ UNCHANGED packageVars
    /\ UNCHANGED <<prog, innerHTML, headScripts, scriptLoaded, p5Defined, ch,
                   canvas, sketch, inst, fault, calls, lastCall, events>>

\* a clear that faults on a mount point that is already empty
RunClearFaultsOnEmpty(r) ==
    /\ ~fault
    /\ active = r
    /\ pc[r] = "clear"
    /\ trace' = Append1(trace, r, "Clear")
    /\ IF container[r] = Null \/ innerHTML = ""
       THEN /\ fault' = TRUE
            /\ pc' = [pc EXCEPT ![r] = "panic"]
            /\ UNCHANGED innerHTML
       ELSE /\ innerHTML' = ""
            /\ pc' = [pc EXCEPT ![r] = "libcheck"]
            /\ UNCHANGED fault
    /\ UNCHANGED packageVars
    /\ UNCHANGED <<prog, active, container, headScripts, scriptLoaded,
                   p5Defined, ch, canvas, sketch, inst, result, calls,
                   lastCall, events>>

\* container.Set("innerHTML", ""): Value.Set panics on a null value
RunClear(r) ==
    /\ ~fault
    /\ active = r
    /\ pc[r] = "clear"
    /\ trace' = Append1(trace, r, "Clear")
    /\ IF container[r] = Null
       THEN /\ fault' = TRUE
            /\ pc' = [pc EXCEPT ![r] = "panic"]
            /\ UNCHANGED innerHTML
       ELSE /\ innerHTML' = ""
            /\ pc' = [pc EXCEPT ![r] = "libcheck"]
            /\ UNCHANGED fault
    /\ UNCHANGED packageVars
    /\ UNCHANGED <<prog, active, container, headScripts, scriptLoaded,
                   p5Defined, ch, canvas, sketch, inst, result, calls,
                   lastCall, events>>

\* the library taken to be present without looking
P5IsUndefinedNever == FALSE

\* global.Get("p5").IsUndefined()
P5IsUndefined == ~p5Defined

\* if global.Get("p5").IsUndefined(): append the script element, set its
\* onload, and block on <-ch; otherwise go on to construct
RunCheckLibrary(r) ==
    /\ ~fault
    /\ active = r
    /\ pc[r] = "libcheck"
    /\ IF P5IsUndefined
       THEN /\ headScripts' = headScripts \cup {r}
            /\ ch' = [ch EXCEPT ![r] = "open"]
            /\ pc' = [pc EXCEPT ![r] = "wait"]
            /\ active' = 0
            /\ trace' = Append1(trace, r, "LoadScript")
       ELSE /\ pc' = [pc EXCEPT ![r] = "construct"]
            /\ trace' = Append1(trace, r, "LibraryPresent")
            /\ UNCHANGED <<headScripts, ch, active>>
    /\ UNCHANGED packageVars
    /\ UNCHANGED <<prog, container, innerHTML, scriptLoaded, p5Defined,
                   canvas, sketch, inst, result, fault, calls, lastCall,
                   events>>

\* a load callback that releases every waiting call, not only its own
ScriptOnloadShared(r) ==
    /\ ~fault
    /\ active = 0
    /\ r \in headScripts \ scriptLoaded
    /\ scriptLoaded' = scriptLoaded \cup {r}
    /\ p5Defined' = TRUE
    /\ ch' = [q \in DOMAIN ch |-> IF ch[q] = "open" THEN "closed" ELSE ch[q]]
    /\ UNCHANGED packageVars
    /\ UNCHANGED <<prog, pc, active, container, innerHTML, headScripts,
                   canvas, sketch, inst, result, trace, fault, calls, lastCall,
                   events>>

\* the host has loaded and run the script element of session r, which
\* defines the global p5, and fires its load event: the onload callback
\* closes the channel (closing a closed channel panics)
ScriptOnload(r) ==
    /\ ~fault
    /\ active = 0
    /\ r \in headScripts \ scriptLoaded
    /\ scriptLoaded' = scriptLoaded \cup {r}
    /\ p5Defined' = TRUE
    /\ IF ch[r] = "open"
       THEN ch' = [ch EXCEPT ![r] = "closed"] /\ UNCHANGED fault
       ELSE fault' = TRUE /\ UNCHANGED ch
    /\ UNCHANGED packageVars
    /\ UNCHANGED <<prog, pc, active, container, innerHTML, headScripts,
                   canvas, sketch, inst, result, trace, calls, lastCall,
                   events>>

\* a receive that does not wait for the close
ReceiveReadyAlways(c) == TRUE

\* a receive from the unbuffered channel c, to which nothing is ever sent,
\* returns once c is closed
ReceiveReady(c) == c = "closed"

\* <-ch returns and Run goes back to look the selector up again
RunResumeLoopsBack(r) ==
    /\ ~fault
    /\ active = 0
    /\ pc[r] = "wait"
    /\ ReceiveReady(ch[r])
    /\ pc' = [pc EXCEPT ![r] = "idle"]
    /\ active' = 0
    /\ trace' = Append1(trace, r, "Resume")
    /\ UNCHANGED packageVars
    /\ UNCHANGED <<prog, container, innerHTML, headScripts, scriptLoaded,
                   p5Defined, ch, canvas, sketch, inst, result, fault, calls,
                   lastCall, events>>

\* <-ch returns
RunResume(r) ==
    /\ ~fault
    /\ active = 0
    /\ pc[r] = "wait"
    /\ ReceiveReady(ch[r])
    /\ pc' = [pc EXCEPT ![r] = "construct"]
    /\ active' = r
    /\ trace' = Append1(trace, r, "Resume")
    /\ UNCHANGED packageVars
    /\ UNCHANGED <<prog, container, innerHTML, headScripts, scriptLoaded,
                   p5Defined, ch, canvas, sketch, inst, result, fault, calls,
                   lastCall, events>>

\* a Canvas created with the instance reference already set
NewCanvasWithInstance(r) ==
    [id |-> r, p5Instance |-> r, funcHandlers |-> EmptyMap, width |-> 0,
     height |-> 0]

\* the Canvas Run creates; width and height, not named in the literal, are
\* the zero value
NewCanvas(r) ==
    [id |-> r, p5Instance |-> UndefinedRef, funcHandlers |-> EmptyMap,
     width |-> 0, height |-> 0]

\* c := &Canvas{...}; sketch := js.FuncOf(...); global.Get("p5").New(sketch,
\* container): Value.New panics on undefined.  The library creates the
\* instance bound to the container and holds the sketch closure.
RunConstruct(r) ==
    /\ ~fault
    /\ active = r
    /\ pc[r] = "construct"
    /\ canvas' = [canvas EXCEPT ![r] = NewCanvas(r)]
    /\ trace' = Append1(trace, r, "Construct")
    /\ IF P5IsUndefined
       THEN /\ fault' = TRUE
            /\ pc' = [pc EXCEPT ![r] = "panic"]
            /\ UNCHANGED <<sketch, inst>>
       ELSE /\ sketch' = [sketch EXCEPT ![r] = "pending"]
            /\ inst' = [inst EXCEPT ![r] =
                          [id |-> r, node |-> container[r], props |-> EmptyMap,
                           pointer |-> InitPointer]]
            /\ pc' = [pc EXCEPT ![r] = "new"]
            /\ UNCHANGED fault
    /\ UNCHANGED packageVars
    /\ UNCHANGED <<prog, active, container, innerHTML, headScripts,
                   scriptLoaded, p5Defined, ch, result, calls, lastCall,
                   events>>

\* the sketch closure with the range over fs starting one Func late
BindSkipsFirst(c, i, fs) == ApplyAll(fs, [c EXCEPT !.p5Instance = i], 2)

\* the sketch closure applying only the last Func of the list
BindLastOnly(c, i, fs) ==
    ApplyAll(fs, [c EXCEPT !.p5Instance = i], IF Len(fs) = 0 THEN 1 ELSE Len(fs))

\* the body of the sketch closure for instance i: c.p5Instance = args[0],
\* apply every Func in order, then install every registry entry
Bind(c, i, fs) == ApplyAll(fs, [c EXCEPT !.p5Instance = i], 1)

\* The library calls the sketch closure, once, with the instance: during
\* New (Run holds the thread, inside the constructor call) or later from the
\* host event loop.
SketchClosure(r) ==
    /\ ~fault
    /\ sketch[r] = "pending"
    /\ \/ active = r /\ pc[r] = "new"
       \/ active = 0
    /\ LET c == Bind(canvas[r], inst[r].id, prog[r].fs)
       IN /\ canvas' = [canvas EXCEPT ![r] = c]
          /\ \E order \in Orders(DOMAIN c.funcHandlers) :
               inst' = [inst EXCEPT ![r].props =
                          InstallAll(@, c.funcHandlers, order)]
    /\ sketch' = [sketch EXCEPT ![r] = IF active = r THEN "sync" ELSE "async"]
    /\ trace' = Append1(trace, r, "Bind")
    /\ UNCHANGED packageVars
    /\ UNCHANGED <<prog, pc, active, container, innerHTML, headScripts,
                   scriptLoaded, p5Defined, ch, result, fault, calls,
                   lastCall, events>>

\* Run undoing its work when Validate fails: the instance removed and the
\* mount point's content put back
RunValidateRollsBack(r) ==
    /\ ~fault
    /\ active = r
    /\ pc[r] = "new"
    /\ result' = [result EXCEPT ![r] = Validate(canvas[r])]
    /\ pc' = [pc EXCEPT ![r] = "done"]
    /\ active' = 0
    /\ trace' = [trace EXCEPT ![r] = @ \o <<"Validate", "Return">>]
    /\ IF Validate(canvas[r]) = Nil
       THEN UNCHANGED <<inst, innerHTML>>
       ELSE /\ inst' = [inst EXCEPT ![r] = NoInst]
            /\ innerHTML' = "stale"
    /\ UNCHANGED packageVars
    /\ UNCHANGED <<prog, container, headScripts, scriptLoaded,
                   p5Defined, ch, canvas, sketch, fault, calls,
                   lastCall, events>>

\* New has returned: c.Validate() and the return of Run
RunValidate(r) ==
    /\ ~fault
    /\ active = r
    /\ pc[r] = "new"
    /\ result' = [result EXCEPT ![r] = Validate(canvas[r])]
    /\ pc' = [pc EXCEPT ![r] = "done"]
    /\ active' = 0
    /\ trace' = [trace EXCEPT ![r] = @ \o <<"Validate", "Return">>]
    /\ UNCHANGED packageVars
    /\ UNCHANGED <<prog, container, innerHTML, headScripts, scriptLoaded,
                   p5Defined, ch, canvas, sketch, inst, fault, calls,
                   lastCall, events>>

----------------------------------------------------------------------------
(* The runtime calling back *)

\* Value.String(): a JS string as it is, any other value as "<type: value>"
\* (the number 0, the mouseButton of a p5 instance before the first press,
\* is written "#0" here)
JsString(v) == IF v = "#0" THEN "<number: 0>" ELSE v

\* c.MouseX(), c.MouseY(), c.MouseButton(), c.MouseIsPressed(): property
\* reads on the instance c refers to
MouseX(c) == inst[c.p5Instance].pointer.mouseX
MouseY(c) == inst[c.p5Instance].pointer.mouseY
MouseButton(c) == JsString(inst[c.p5Instance].pointer.mouseButton)
MouseIsPressed(c) == inst[c.p5Instance].pointer.mouseIsPressed

\* the event value built from the pointer as it was when the instance was
\* created, not as it is at the call
MouseEventAtBind(c) ==
    [X |-> InitPointer.mouseX, Y |-> InitPointer.mouseY,
     Button |-> JsString(InitPointer.mouseButton),
     Pressed |-> InitPointer.mouseIsPressed]

\* the event value a mouse adapter builds
MouseEvent(c) ==
    [X |-> MouseX(c), Y |-> MouseY(c), Button |-> MouseButton(c),
     Pressed |-> MouseIsPressed(c)]

\* an adapter that calls the handler once per event argument
AdapterCallPerArg(a, nargs) ==
    [handler |-> a.handler,
     c |-> a.c,
     e |-> IF a.kind = "mouse" THEN MouseEvent(canvas[a.c]) ELSE NoEvent,
     times |-> nargs,
     ret |-> Null,
     fn |-> a.fn,
     nargs |-> nargs,
     on |-> 0,
     hook |-> ""]

\* the body of adapter a, called with nargs arguments: the call it makes of
\* the caller's handler (which handler, with which Canvas and event value,
\* how many times) and the value it returns to the runtime; on and hook are
\* filled in by the caller: the instance and property it was called through
AdapterCall(a, nargs) ==
    [handler |-> a.handler,
     c |-> a.c,
     e |-> IF a.kind = "mouse" THEN MouseEvent(canvas[a.c]) ELSE NoEvent,
     times |-> 1,
     ret |-> Null,
     fn |-> a.fn,
     nargs |-> nargs,
     on |-> 0,
     hook |-> ""]

\* JavaScript can call a function installed on instance r: no Go code holds
\* the thread, or Run of r is inside the constructor call New, where the
\* library calls the sketch closure and then the hooks the closure installed
\* (an adapter is callable from the moment Set has installed it)
AdapterCallable(r) == IF active = 0 THEN TRUE ELSE active = r /\ pc[r] = "new"

\* the runtime calls the function installed under hook on instance r
InvokeAdapter(r, hook, nargs) ==
    /\ ~fault
    /\ AdapterCallable(r)
    /\ events < MaxEvents
    /\ inst[r] # NoInst
    /\ hook \in DOMAIN inst[r].props
    /\ LET call == AdapterCall(inst[r].props[hook], nargs)
       IN /\ calls' = [calls EXCEPT ![call.handler] = @ + call.times]
          /\ lastCall' = [call EXCEPT !.on = r, !.hook = hook]
    /\ events' = events + 1
    /\ UNCHANGED packageVars
    /\ UNCHANGED <<prog, pc, active, container, innerHTML, headScripts,
                   scriptLoaded, p5Defined, ch, canvas, sketch, inst, result,
                   trace, fault>>

\* the runtime updates the pointer properties of instance r
PointerUpdate(r, ptr) ==
    /\ ~fault
    /\ active = 0
    /\ events < MaxEvents
    /\ inst[r] # NoInst
    /\ ptr # inst[r].pointer
    /\ inst' = [inst EXCEPT ![r].pointer = ptr]
    /\ events' = events + 1
    /\ UNCHANGED packageVars
    /\ UNCHANGED <<prog, pc, active, container, innerHTML, headScripts,
                   scriptLoaded, p5Defined, ch, canvas, sketch, result,
                   trace, fault, calls, lastCall>>

----------------------------------------------------------------------------

Next ==
    \/ \E r \in Sessions : RunResolve(r)
    \/ \E r \in Sessions : RunClear(r)
    \/ \E r \in Sessions : RunCheckLibrary(r)
    \/ \E r \in Sessions : ScriptOnload(r)
    \/ \E r \in Sessions : RunResume(r)
    \/ \E r \in Sessions : RunConstruct(r)
    \/ \E r \in Sessions : SketchClosure(r)
    \/ \E r \in Sessions : RunValidate(r)
    \/ \E r \in Sessions, hook \in HookNames, nargs \in 0..MaxArgs :
         InvokeAdapter(r, hook, nargs)
    \/ \E r \in Sessions, ptr \in Pointers : PointerUpdate(r, ptr)

Spec == Init /\ [][Next]_vars

----------------------------------------------------------------------------
(* Canvas.Validate on its own: Validate is an exported method, called here *)
(* on Canvas values of every shape the type allows: the instance reference  *)
(* undefined or set, the registry any map the builders can produce.         *)

\* the registries the builders produce from the enumerated lists
Registries ==
    {ApplyAll(fs, NewCanvas(1), 1).funcHandlers :
        fs \in SeqsUpTo(InputFuncs, MaxRegs)}

CanvasValues ==
    [id : {1}, p5Instance : {UndefinedRef, 1}, funcHandlers : Registries,
     width : {0}, height : {0}]

InitValidate ==
    /\ prog = <<[query |-> "#container", fs |-> <<>>]>>
    /\ pc = <<"validate">>
    /\ active = 0
    /\ container = <<Undefined>>
    /\ innerHTML = "stale"
    /\ headScripts = {}
    /\ scriptLoaded = {}
    /\ p5Defined = TRUE
    /\ ch = <<"nil">>
    /\ canvas \in {<<c>> : c \in CanvasValues}
    /\ sketch = <<"none">>
    /\ inst = <<NoInst>>
    /\ result = <<Pending>>
    /\ trace = <<<<>>>>
    /\ fault = FALSE
    /\ calls = [cb \in Callbacks |-> 0]
    /\ lastCall = NoCall
    /\ events = 0
    /\ p5Instance = UndefinedRef
    /\ eventHandlers = EmptyMap
    /\ global = {}

\* c.Validate()
CallValidate(r) ==
    /\ pc[r] = "validate"
    /\ result' = [result EXCEPT ![r] = Validate(canvas[r])]
    /\ pc' = [pc EXCEPT ![r] = "validated"]
    /\ UNCHANGED packageVars
    /\ UNCHANGED <<prog, active, container, innerHTML, headScripts,
                   scriptLoaded, p5Defined, ch, canvas, sketch, inst, trace,
                   fault, calls, lastCall, events>>

NextValidate == \E r \in Sessions : CallValidate(r)

SpecValidate == InitValidate /\ [][NextValidate]_vars

----------------------------------------------------------------------------
(* Run called with Funcs from every builder: one Func, or two.              *)

\* the state before the caller's first Run call, for a caller whose program
\* is one of progs
InitState(progs) ==
    /\ prog \in progs
    /\ pc = [r \in DOMAIN prog |-> "idle"]
    /\ active = 0
    /\ container = [r \in DOMAIN prog |-> Undefined]
    /\ innerHTML = "stale"
    /\ headScripts = {}
    /\ scriptLoaded = {}
    /\ p5Defined \in BOOLEAN
    /\ ch = [r \in DOMAIN prog |-> "nil"]
    /\ canvas = [r \in DOMAIN prog |-> NoCanvas]
    /\ sketch = [r \in DOMAIN prog |-> "none"]
    /\ inst = [r \in DOMAIN prog |-> NoInst]
    /\ result = [r \in DOMAIN prog |-> Pending]
    /\ trace = [r \in DOMAIN prog |-> <<>>]
    /\ fault = FALSE
    /\ calls = [cb \in Callbacks |-> 0]
    /\ lastCall = NoCall
    /\ events = 0
    /\ p5Instance = UndefinedRef
    /\ eventHandlers = EmptyMap
    /\ global = {}

\* the Funcs of every builder
AllFuncs == {Builder(n, cb) : n \in BuilderNames, cb \in Callbacks}

BuilderCalls ==
    [query : {"#container"},
     fs : {<<f>> : f \in AllFuncs} \cup {<<f, g>> : f \in AllFuncs, g \in AllFuncs}]

InitBuilders == InitState({<<call>> : call \in BuilderCalls})

\* the steps of Run and of the host up to the return of Run and the call of
\* the closure; the runtime's later calls of the adapters are left to Next
NextBootstrap ==
    \/ \E r \in Sessions : RunResolve(r)
    \/ \E r \in Sessions : RunClear(r)
    \/ \E r \in Sessions : RunCheckLibrary(r)
    \/ \E r \in Sessions : ScriptOnload(r)
    \/ \E r \in Sessions : RunResume(r)
    \/ \E r \in Sessions : RunConstruct(r)
    \/ \E r \in Sessions : SketchClosure(r)
    \/ \E r \in Sessions : RunValidate(r)

SpecBuilders == InitBuilders /\ [][NextBootstrap]_vars

----------------------------------------------------------------------------
(* One Func applied to a Canvas: f(c), on Canvas values with the instance   *)
(* reference undefined or set, the registry empty or filled, and the        *)
(* instance with no hook property yet (inside the closure, before the       *)
(* install loop) or with the registry's entries installed (after it).       *)

\* the registries the Canvas starts with
ApplyRegistries ==
    {ApplyAll(fs, NewCanvas(1), 1).funcHandlers :
        fs \in {<<>>} \cup {<<f>> : f \in AllFuncs}
                     \cup {<<Draw("fnA"), f>> : f \in AllFuncs}}

InitApply ==
    /\ prog \in {<<[query |-> "#container", fs |-> <<f>>]>> : f \in AllFuncs}
    /\ pc = <<"apply">>
    /\ active = 0
    /\ container = <<"container">>
    /\ innerHTML = ""
    /\ headScripts = {}
    /\ scriptLoaded = {}
    /\ p5Defined = TRUE
    /\ ch = <<"nil">>
    /\ canvas \in {<<c>> : c \in [id : {1}, p5Instance : {UndefinedRef, 1},
                                    funcHandlers : ApplyRegistries,
                                    width : {0}, height : {0}]}
    /\ sketch = <<"pending">>
    /\ inst \in {<<[id |-> 1, node |-> "container", props |-> p,
                     pointer |-> InitPointer]>> :
                    p \in {EmptyMap, canvas[1].funcHandlers}}
    /\ result = <<Pending>>
    /\ trace = <<<<>>>>
    /\ fault = FALSE
    /\ calls = [cb \in Callbacks |-> 0]
    /\ lastCall = NoCall
    /\ events = 0
    /\ p5Instance = UndefinedRef
    /\ eventHandlers = EmptyMap
    /\ global = {}

\* f(c) for the Func f of the caller's list
CallFunc(r) ==
    /\ pc[r] = "apply"
    /\ canvas' = [canvas EXCEPT ![r] =
                     ApplyFunc(prog[r].fs[1], @, FreshFn(@, inst[r].props))]
    /\ pc' = [pc EXCEPT ![r] = "applied"]
    /\ UNCHANGED packageVars
    /\ UNCHANGED <<prog, active, container, innerHTML, headScripts,
                   scriptLoaded, p5Defined, ch, sketch, inst, result, trace,
                   fault, calls, lastCall, events>>

NextApply == \E r \in Sessions : CallFunc(r)

SpecApply == InitApply /\ [][NextApply]_vars

----------------------------------------------------------------------------
(* Two Run calls, the second given the Funcs of the first in another order. *)

\* the Funcs the permuted lists are made of
PermFuncs == {Setup("fnA"), Setup("fnB"), Draw("fnA"), MousePressed("fnB")}

\* the lists with the elements of fs in every order
Perms(fs) ==
    {[i \in 1..Len(fs) |-> fs[o[i]]] : o \in Orders(1..Len(fs))}

PermutedCalls ==
    {<<[query |-> "#container", fs |-> fs], [query |-> "#container", fs |-> gs]>> :
        fs \in SeqsUpTo(PermFuncs, MaxRegs), gs \in SeqsUpTo(PermFuncs, MaxRegs)}

InitPermuted ==
    InitState({calls2 \in PermutedCalls : calls2[2].fs \in Perms(calls2[1].fs)})

SpecPermuted == InitPermuted /\ [][NextBootstrap]_vars

----------------------------------------------------------------------------
(* Two Run calls on the same mount point.  The second call starts once the  *)
(* first has returned or is parked in the library wait.                     *)

TwoLists ==
    {<<Setup("fnA"), Draw("fnB")>>,
     <<Setup("fnA"), Draw("fnB"), MousePressed("fnA")>>,
     <<Draw("fnA")>>}

TwoCalls == [query : {"#container"}, fs : TwoLists]

InitTwo == InitState({<<first, second>> : first \in TwoCalls, second \in TwoCalls})

SpecTwo == InitTwo /\ [][Next]_vars

----------------------------------------------------------------------------
(* The Canvas methods.  The caller's handlers get the session's Canvas and   *)
(* call its methods: CreateCanvas and Size, which keep the size in the      *)
(* Canvas, methods that only forward to the instance (Background; Hide,     *)
(* Close and Mask, whose call panics when the object lacks the method; the  *)
(* rotations about an axis and OrbitControl, whose method throws without    *)
(* the WEBGL renderer; GetFrameRate, which reads a method as a number),     *)
(* CreateGraphics, which returns a new Canvas for the graphics object the   *)
(* library creates, and Validate.  A Canvas CreateGraphics returned is kept *)
(* in canvas, and its graphics object in inst, after the sessions' own.     *)

\* widths and heights the caller passes
Sizes == {100, 200}

\* the nil map: the funcHandlers of a Canvas literal that does not name it
NilMap == [nil |-> TRUE]

\* a map is nil: reading it yields the zero value, assigning to it panics
MapIsNil(m) == m = NilMap

\* the caller holds the Canvas k: a session's Canvas once its adapters are
\* installed (a handler is the only way the caller gets it), a Canvas that
\* CreateGraphics returned from then on
Handed(k) ==
    /\ k \in DOMAIN canvas
    /\ k \in Sessions => sketch[k] \in {"sync", "async"}

\* a handler of the caller can be running, and with it the calls it makes on
\* a Canvas: the host has the thread, or a Run call is inside the constructor
\* call with its adapters installed
HandlerMayRun ==
    IF active = 0 THEN TRUE ELSE pc[active] = "new" /\ sketch[active] = "sync"

\* methods of a p5 element, which a graphics object is and the instance of a
\* sketch is not
ElementMethods == {"size", "hide"}

\* methods of the instance of a sketch that throw unless the renderer of the
\* object is WEBGL
WebGLMethods == {"rotateX", "rotateY", "rotateZ", "orbitControl"}

\* methods of the instance of a sketch; a graphics object has them as well
InstanceMethods ==
    {"createCanvas", "background", "createGraphics"} \cup WebGLMethods

\* what a caller can pass to CreateGraphics after the size: nothing, a mode
\* as a Go string, or one of the package's constants P2D and WEBGL, whose
\* type is RendererMode
Renderers ==
    {[type |-> "none", mode |-> "p2d"]}
    \cup [type : {"string", "RendererMode"}, mode : {"p2d", "webgl"}]

\* js.ValueOf(x), which Value.Call applies to every argument, panics: its
\* type switch has a case for string and none for the named type
\* RendererMode
ValueOfPanics(x) == x.type = "RendererMode"

\* the object i has a method of this name; "close" and "mask" are methods of
\* neither kind of object
HasMethod(i, name) ==
    IF name \in ElementMethods
    THEN inst[i].node = "offscreen"
    ELSE name \in InstanceMethods

\* the object i has a method size
HasSize(i) == HasMethod(i, "size")

\* the object i draws with the WEBGL renderer: a graphics object created
\* with that mode; never the instance of a sketch, whose canvas
\* CreateCanvas creates without passing a mode on
IsWebGL(i) == "renderer" \in DOMAIN inst[i] /\ inst[i].renderer = "webgl"

\* c.p5Instance.Call(name, ...) panics: the object has no such method, or
\* the method throws
CallPanics(i, name) ==
    \/ ~HasMethod(i, name)
    \/ name \in WebGLMethods /\ ~IsWebGL(i)

\* c.Width(), c.Height()
Width(c) == c.width
Height(c) == c.height

\* CreateCanvas storing the pair the other way round
CreateCanvasSwapped(k, w, h) ==
    /\ ~fault
    /\ HandlerMayRun
    /\ events < MaxEvents
    /\ Handed(k)
    /\ canvas' = [canvas EXCEPT ![k].width = h, ![k].height = w]
    /\ inst' = [inst EXCEPT ![canvas[k].p5Instance] =
                   MapSet(MapSet(@, "width", w), "height", h)]
    /\ lastCall' = [handler |-> "none", method |-> "CreateCanvas", on |-> k,
                    w |-> w, h |-> h]
    /\ events' = events + 1
    /\ UNCHANGED packageVars
    /\ UNCHANGED <<prog, pc, active, container, innerHTML, headScripts,
                   scriptLoaded, p5Defined, ch, sketch, result, trace, fault,
                   calls>>

\* CreateCanvas emptying the registry
CreateCanvasClearsRegistry(k, w, h) ==
    /\ ~fault
    /\ HandlerMayRun
    /\ events < MaxEvents
    /\ Handed(k)
    /\ canvas' = [canvas EXCEPT ![k].width = w, ![k].height = h,
                                ![k].funcHandlers = EmptyMap]
    /\ inst' = [inst EXCEPT ![canvas[k].p5Instance] =
                   MapSet(MapSet(@, "width", w), "height", h)]
    /\ lastCall' = [handler |-> "none", method |-> "CreateCanvas", on |-> k,
                    w |-> w, h |-> h]
    /\ events' = events + 1
    /\ UNCHANGED packageVars
    /\ UNCHANGED <<prog, pc, active, container, innerHTML, headScripts,
                   scriptLoaded, p5Defined, ch, sketch, result, trace, fault,
                   calls>>

\* c.CreateCanvas(w, h): c.width, c.height = w, h, then createCanvas on the
\* instance, which takes that size
CreateCanvas(k, w, h) ==
    /\ ~fault
    /\ HandlerMayRun
    /\ events < MaxEvents
    /\ Handed(k)
    /\ canvas' = [canvas EXCEPT ![k].width = w, ![k].height = h]
    /\ inst' = [inst EXCEPT ![canvas[k].p5Instance] =
                   MapSet(MapSet(@, "width", w), "height", h)]
    /\ lastCall' = [handler |-> "none", method |-> "CreateCanvas", on |-> k,
                    w |-> w, h |-> h]
    /\ events' = events + 1
    /\ UNCHANGED packageVars
    /\ UNCHANGED <<prog, pc, active, container, innerHTML, headScripts,
                   scriptLoaded, p5Defined, ch, sketch, result, trace, fault,
                   calls>>

\* c.Size(width, height): c.width, c.height = width, height, then
\* c.p5Instance.Call("size", width, height): Value.Call panics when the
\* object has no such method
Size(k, w, h) ==
    /\ ~fault
    /\ HandlerMayRun
    /\ events < MaxEvents
    /\ Handed(k)
    /\ canvas' = [canvas EXCEPT ![k].width = w, ![k].height = h]
    /\ IF HasSize(canvas[k].p5Instance)
       THEN /\ inst' = [inst EXCEPT ![canvas[k].p5Instance] =
                          MapSet(MapSet(@, "width", w), "height", h)]
            /\ UNCHANGED fault
       ELSE /\ fault' = TRUE
            /\ UNCHANGED inst
    /\ lastCall' = [handler |-> "none", method |-> "Size", on |-> k,
                    w |-> w, h |-> h]
    /\ events' = events + 1
    /\ UNCHANGED packageVars
    /\ UNCHANGED <<prog, pc, active, container, innerHTML, headScripts,
                   scriptLoaded, p5Defined, ch, sketch, result, trace, calls>>

\* c.Background(args...): forwards to the instance, which draws; nothing of
\* the Canvas or of the instance's hook and pointer properties changes
Background(k) ==
    /\ ~fault
    /\ HandlerMayRun
    /\ events < MaxEvents
    /\ Handed(k)
    /\ lastCall' = [handler |-> "none", method |-> "Background", on |-> k]
    /\ events' = events + 1
    /\ UNCHANGED packageVars
    /\ UNCHANGED <<prog, pc, active, container, innerHTML, headScripts,
                   scriptLoaded, p5Defined, ch, canvas, sketch, inst, result,
                   trace, fault, calls>>

\* c.Hide(): c.p5Instance.Call("hide"), which panics when the object has no
\* such method; no field of the Canvas is written
Hide(k) ==
    /\ ~fault
    /\ HandlerMayRun
    /\ events < MaxEvents
    /\ Handed(k)
    /\ fault' = CallPanics(canvas[k].p5Instance, "hide")
    /\ lastCall' = [handler |-> "none", method |-> "Hide", on |-> k]
    /\ events' = events + 1
    /\ UNCHANGED packageVars
    /\ UNCHANGED <<prog, pc, active, container, innerHTML, headScripts,
                   scriptLoaded, p5Defined, ch, canvas, sketch, inst, result,
                   trace, calls>>

\* c.Close(): c.p5Instance.Call("close"), which panics when the object has
\* no such method
Close(k) ==
    /\ ~fault
    /\ HandlerMayRun
    /\ events < MaxEvents
    /\ Handed(k)
    /\ fault' = CallPanics(canvas[k].p5Instance, "close")
    /\ lastCall' = [handler |-> "none", method |-> "Close", on |-> k]
    /\ events' = events + 1
    /\ UNCHANGED packageVars
    /\ UNCHANGED <<prog, pc, active, container, innerHTML, headScripts,
                   scriptLoaded, p5Defined, ch, canvas, sketch, inst, result,
                   trace, calls>>

\* c.Mask(img): c.p5Instance.Call("mask", img), which panics when the object
\* has no such method
Mask(k) ==
    /\ ~fault
    /\ HandlerMayRun
    /\ events < MaxEvents
    /\ Handed(k)
    /\ fault' = CallPanics(canvas[k].p5Instance, "mask")
    /\ lastCall' = [handler |-> "none", method |-> "Mask", on |-> k]
    /\ events' = events + 1
    /\ UNCHANGED packageVars
    /\ UNCHANGED <<prog, pc, active, container, innerHTML, headScripts,
                   scriptLoaded, p5Defined, ch, canvas, sketch, inst, result,
                   trace, calls>>

\* c.RotateX(angle): c.p5Instance.Call("rotateX", angle); the method throws on a
\* renderer that is not WEBGL
RotateX(k) ==
    /\ ~fault
    /\ HandlerMayRun
    /\ events < MaxEvents
    /\ Handed(k)
    /\ fault' = CallPanics(canvas[k].p5Instance, "rotateX")
    /\ lastCall' = [handler |-> "none", method |-> "RotateX", on |-> k]
    /\ events' = events + 1
    /\ UNCHANGED packageVars
    /\ UNCHANGED <<prog, pc, active, container, innerHTML, headScripts,
                   scriptLoaded, p5Defined, ch, canvas, sketch, inst, result,
                   trace, calls>>

\* c.RotateY(angle): c.p5Instance.Call("rotateY", angle); the method throws on a
\* renderer that is not WEBGL
RotateY(k) ==
    /\ ~fault
    /\ HandlerMayRun
    /\ events < MaxEvents
    /\ Handed(k)
    /\ fault' = CallPanics(canvas[k].p5Instance, "rotateY")
    /\ lastCall' = [handler |-> "none", method |-> "RotateY", on |-> k]
    /\ events' = events + 1
    /\ UNCHANGED packageVars
    /\ UNCHANGED <<prog, pc, active, container, innerHTML, headScripts,
                   scriptLoaded, p5Defined, ch, canvas, sketch, inst, result,
                   trace, calls>>

\* c.RotateZ(angle): c.p5Instance.Call("rotateZ", angle); the method throws on a
\* renderer that is not WEBGL
RotateZ(k) ==
    /\ ~fault
    /\ HandlerMayRun
    /\ events < MaxEvents
    /\ Handed(k)
    /\ fault' = CallPanics(canvas[k].p5Instance, "rotateZ")
    /\ lastCall' = [handler |-> "none", method |-> "RotateZ", on |-> k]
    /\ events' = events + 1
    /\ UNCHANGED packageVars
    /\ UNCHANGED <<prog, pc, active, container, innerHTML, headScripts,
                   scriptLoaded, p5Defined, ch, canvas, sketch, inst, result,
                   trace, calls>>

\* c.OrbitControl(opts...): c.p5Instance.Call("orbitControl", opts...); the
\* method throws on a renderer that is not WEBGL
OrbitControl(k) ==
    /\ ~fault
    /\ HandlerMayRun
    /\ events < MaxEvents
    /\ Handed(k)
    /\ fault' = CallPanics(canvas[k].p5Instance, "orbitControl")
    /\ lastCall' = [handler |-> "none", method |-> "OrbitControl", on |-> k]
    /\ events' = events + 1
    /\ UNCHANGED packageVars
    /\ UNCHANGED <<prog, pc, active, container, innerHTML, headScripts,
                   scriptLoaded, p5Defined, ch, canvas, sketch, inst, result,
                   trace, calls>>

\* c.GetFrameRate(): c.p5Instance.Get("frameRate").Float(); frameRate is a
\* method of the object, and Value.Float panics on a value that is not a
\* number
GetFrameRate(k) ==
    /\ ~fault
    /\ HandlerMayRun
    /\ events < MaxEvents
    /\ Handed(k)
    /\ fault' = TRUE
    /\ lastCall' = [handler |-> "none", method |-> "GetFrameRate", on |-> k]
    /\ events' = events + 1
    /\ UNCHANGED packageVars
    /\ UNCHANGED <<prog, pc, active, container, innerHTML, headScripts,
                   scriptLoaded, p5Defined, ch, canvas, sketch, inst, result,
                   trace, calls>>

\* &Canvas{p5Instance: <graphics object g>}: the fields the literal does not
\* name are zero values: funcHandlers nil, width and height 0
NewGraphicsCanvas(g, w, h) ==
    [id |-> g, p5Instance |-> g, funcHandlers |-> NilMap, width |-> 0,
     height |-> 0]

\* c.CreateGraphics(w, h, renderer...): the arguments are converted for
\* c.p5Instance.Call("createGraphics", w, h, renderer...), which panics on a
\* RendererMode; otherwise createGraphics on the instance returns a graphics
\* object of that size and renderer mode ("p2d" when none is passed), and
\* the method returns a new Canvas around it
CreateGraphics(k, w, h, renderer) ==
    /\ ~fault
    /\ HandlerMayRun
    /\ events < MaxEvents
    /\ Handed(k)
    /\ IF ValueOfPanics(renderer)
       THEN /\ fault' = TRUE
            /\ lastCall' = [handler |-> "none", method |-> "CreateGraphics",
                            on |-> k, w |-> w, h |-> h]
            /\ UNCHANGED <<canvas, inst>>
       ELSE LET g == Len(canvas) + 1
            IN /\ canvas' = Append(canvas, NewGraphicsCanvas(g, w, h))
               /\ inst' = Append(inst, [id |-> g, node |-> "offscreen",
                                        props |-> EmptyMap,
                                        pointer |-> InitPointer,
                                        width |-> w, height |-> h,
                                        renderer |-> renderer.mode])
               /\ lastCall' = [handler |-> "none",
                               method |-> "CreateGraphics", on |-> k,
                               w |-> w, h |-> h, ret |-> g]
               /\ UNCHANGED fault
    /\ events' = events + 1
    /\ UNCHANGED packageVars
    /\ UNCHANGED <<prog, pc, active, container, innerHTML, headScripts,
                   scriptLoaded, p5Defined, ch, sketch, result, trace, calls>>

\* the caller calls c.Validate() on a Canvas it holds
ValidateCanvas(k) ==
    /\ ~fault
    /\ HandlerMayRun
    /\ events < MaxEvents
    /\ Handed(k)
    /\ lastCall' = [handler |-> "none", method |-> "Validate", on |-> k,
                    ret |-> Validate(canvas[k])]
    /\ events' = events + 1
    /\ UNCHANGED packageVars
    /\ UNCHANGED <<prog, pc, active, container, innerHTML, headScripts,
                   scriptLoaded, p5Defined, ch, canvas, sketch, inst, result,
                   trace, fault, calls>>

\* the caller applies the Func f to a Canvas it holds: on the Canvas of a
\* session the registry entry is written (and nothing is installed on the
\* instance); on a Canvas that CreateGraphics returned
\* c.funcHandlers[hook] = ... panics (assignment to entry in nil map)
ApplyToCanvas(k, f) ==
    /\ ~fault
    /\ HandlerMayRun
    /\ events < MaxEvents
    /\ Handed(k)
    /\ lastCall' = [handler |-> "none", method |-> "Func", on |-> k,
                    hook |-> f.hook]
    /\ IF MapIsNil(canvas[k].funcHandlers)
       THEN /\ fault' = TRUE
            /\ UNCHANGED canvas
       ELSE /\ canvas' = [canvas EXCEPT ![k] =
                            ApplyFunc(f, @, FreshFn(@, inst[@.p5Instance].props))]
            /\ UNCHANGED fault
    /\ events' = events + 1
    /\ UNCHANGED packageVars
    /\ UNCHANGED <<prog, pc, active, container, innerHTML, headScripts,
                   scriptLoaded, p5Defined, ch, sketch, inst, result, trace,
                   calls>>

WrapperLists ==
    {<<Setup("fnA"), Draw("fnB")>>, <<Draw("fnA"), MousePressed("fnB")>>}

InitWrapper ==
    InitState({<<[query |-> "#container", fs |-> fs]>> : fs \in WrapperLists})

NextWrapper ==
    \/ NextBootstrap
    \/ \E r \in Sessions, hook \in HookNames, nargs \in 0..MaxArgs :
         InvokeAdapter(r, hook, nargs)
    \/ \E k \in DOMAIN canvas, w \in Sizes, h \in Sizes : CreateCanvas(k, w, h)
    \/ \E k \in DOMAIN canvas, w \in Sizes, h \in Sizes : Size(k, w, h)
    \/ \E k \in DOMAIN canvas : Background(k)
    \/ \E k \in DOMAIN canvas : Hide(k)
    \/ \E k \in DOMAIN canvas : Close(k)
    \/ \E k \in DOMAIN canvas : Mask(k)
    \/ \E k \in DOMAIN canvas : RotateX(k)
    \/ \E k \in DOMAIN canvas : RotateY(k)
    \/ \E k \in DOMAIN canvas : RotateZ(k)
    \/ \E k \in DOMAIN canvas : OrbitControl(k)
    \/ \E k \in DOMAIN canvas : GetFrameRate(k)
    \/ \E k \in DOMAIN canvas, w \in Sizes, h \in Sizes, m \in Renderers :
         CreateGraphics(k, w, h, m)
    \/ \E k \in DOMAIN canvas : ValidateCanvas(k)
    \/ \E k \in DOMAIN canvas, f \in {Setup("fnA"), MousePressed("fnB")} :
         ApplyToCanvas(k, f)

SpecWrapper == InitWrapper /\ [][NextWrapper]_vars

----------------------------------------------------------------------------
(* The same Run call executed twice over: the same list, the same instance, *)
(* and each execution with the iteration order Go happens to pick for the   *)
(* range over the registry.  trace keeps the order an execution picked.     *)

InitOrders ==
    /\ prog \in {<<call, call>> :
                    call \in [query : {"#container"},
                              fs : SeqsUpTo(PermFuncs, MaxRegs)]}
    /\ pc = <<"new", "new">>
    /\ active = 0
    /\ container = <<"container", "container">>
    /\ innerHTML = ""
    /\ headScripts = {}
    /\ scriptLoaded = {}
    /\ p5Defined = TRUE
    /\ ch = <<"nil", "nil">>
    /\ canvas = <<NewCanvas(1), NewCanvas(1)>>
    /\ sketch = <<"pending", "pending">>
    /\ inst = [r \in 1..2 |-> [id |-> 1, node |-> "container", props |-> EmptyMap,
                                pointer |-> InitPointer]]
    /\ result = <<Pending, Pending>>
    /\ trace = <<<<>>, <<>>>>
    /\ fault = FALSE
    /\ calls = [cb \in Callbacks |-> 0]
    /\ lastCall = NoCall
    /\ events = 0
    /\ p5Instance = UndefinedRef
    /\ eventHandlers = EmptyMap
    /\ global = {}

\* the library calls the closure during New; the closure ranges over the
\* registry in some order and returns to the constructor
SketchClosureOrdered(r) ==
    /\ pc[r] = "new"
    /\ sketch[r] = "pending"
    /\ LET c == Bind(canvas[r], inst[r].id, prog[r].fs)
       IN /\ canvas' = [canvas EXCEPT ![r] = c]
          /\ \E order \in Orders(DOMAIN c.funcHandlers) :
               /\ inst' = [inst EXCEPT ![r].props =
                             InstallAll(@, c.funcHandlers, order)]
               /\ trace' = [trace EXCEPT ![r] = order]
    /\ sketch' = [sketch EXCEPT ![r] = "sync"]
    /\ UNCHANGED packageVars
    /\ UNCHANGED <<prog, pc, active, container, innerHTML, headScripts,
                   scriptLoaded, p5Defined, ch, result, fault, calls, lastCall,
                   events>>

\* New has returned: c.Validate() and the return of Run
ValidateOrdered(r) ==
    /\ pc[r] = "new"
    /\ sketch[r] = "sync"
    /\ result' = [result EXCEPT ![r] = Validate(canvas[r])]
    /\ pc' = [pc EXCEPT ![r] = "done"]
    /\ UNCHANGED packageVars
    /\ UNCHANGED <<prog, active, container, innerHTML, headScripts,
                   scriptLoaded, p5Defined, ch, canvas, sketch, inst, trace,
                   fault, calls, lastCall, events>>

\* between the closure and the return of New the constructor calls the
\* hooks the closure installed
NextOrders ==
    \/ \E r \in Sessions : SketchClosureOrdered(r)
    \/ \E r \in Sessions, hook \in {"setup", "draw"} :
         pc[r] = "new" /\ InvokeAdapter(r, hook, 0)
    \/ \E r \in Sessions : ValidateOrdered(r)

SpecOrders == InitOrders /\ [][NextOrders]_vars

----------------------------------------------------------------------------
(* The older, package-level API: Init creates an instance and stores it in  *)
(* the package variable p5Instance; handlers are registered by name in the  *)
(* package map eventHandlers.  prog holds the caller's Init call.           *)

\* the names the enumerated hosts define on the global object
HostNames == {"draw", "mousePressed", "keyPressed"}
\* the names the enumerated callers register handlers under
HandlerNames == {"mousePressed", "keyPressed"}
\* the event values the runtime passes
EventValues == {"evA", "evB"}

\* the argument lists the runtime calls an adapter with: none, or up to n
\* alternating event values
RECURSIVE Alternate(_, _, _)
Alternate(x, y, n) == IF n = 0 THEN <<>> ELSE <<x>> \o Alternate(y, x, n - 1)

ArgLists(n) ==
    {Alternate(p[1], p[2], k) :
        p \in {q \in EventValues \X EventValues : q[1] # q[2]}, k \in 0..n}

\* the names setupSketch passes to setupEventHandler, in its order
EventNames ==
    <<"mouseMoved", "mouseDragged", "mousePressed", "mouseReleased",
      "mouseClicked", "doubleClicked", "mouseWheel", "keyPressed",
      "keyReleased", "keyTyped">>

\* the js.FuncOf closure setupEventHandler creates: it keeps the name only
EventAdapter(name) == [kind |-> "byName", name |-> name]
\* the package functions preload, setup and draw handed to the instance
PackageFunc(name) == [kind |-> "package", name |-> name]

\* setupEventHandler(name) on the properties of the instance in p5Instance
setupEventHandler(props, name) ==
    IF name \in global THEN MapSet(props, name, EventAdapter(name)) ELSE props

RECURSIVE setupEventHandlers(_, _)
setupEventHandlers(props, i) ==
    IF i > Len(EventNames) THEN props
    ELSE setupEventHandlers(setupEventHandler(props, EventNames[i]), i + 1)

setupSketch(props) ==
    LET withPreload == IF "preload" \in global
                       THEN MapSet(props, "preload", PackageFunc("preload"))
                       ELSE props
        withSetup == IF "setup" \in global
                     THEN MapSet(withPreload, "setup", PackageFunc("setup"))
                     ELSE withPreload
        withDraw == IF "draw" \in global
                    THEN MapSet(withSetup, "draw", PackageFunc("draw"))
                    ELSE withSetup
    IN setupEventHandlers(withDraw, 1)

\* the closure of setupEventHandler passing the last argument on
EventAdapterCallLastArg(handlers, name, args) ==
    IF name \in DOMAIN handlers
    THEN [handler |-> handlers[name], times |-> 1,
          panics |-> Len(args) = 0,
          arg |-> IF Len(args) = 0 THEN Undefined ELSE args[Len(args)]]
    ELSE [handler |-> "none", times |-> 0, panics |-> FALSE, arg |-> Undefined]

\* the body of the closure installed under name, called with args: the
\* handler is looked up in the map now; args[0] is evaluated only when one
\* is found, and panics (index out of range) on an empty args
EventAdapterCall(handlers, name, args) ==
    IF name \in DOMAIN handlers
    THEN IF Len(args) = 0
         THEN [handler |-> handlers[name], times |-> 0, panics |-> TRUE,
               arg |-> Undefined]
         ELSE [handler |-> handlers[name], times |-> 1, panics |-> FALSE,
               arg |-> args[1]]
    ELSE [handler |-> "none", times |-> 0, panics |-> FALSE, arg |-> Undefined]

InitCalls == [query : Selectors, fs : {<<>>}]

InitPackage ==
    /\ prog \in {<<call>> : call \in InitCalls}
    /\ pc = [r \in DOMAIN prog |-> "idle"]
    /\ active = 0
    /\ container = [r \in DOMAIN prog |-> Undefined]
    /\ innerHTML = "stale"
    /\ headScripts = {}
    /\ scriptLoaded = {}
    /\ p5Defined \in BOOLEAN
    /\ ch = [r \in DOMAIN prog |-> "nil"]
    /\ canvas = [r \in DOMAIN prog |-> NoCanvas]
    /\ sketch = [r \in DOMAIN prog |-> "none"]
    /\ inst = [r \in DOMAIN prog |-> NoInst]
    /\ result = [r \in DOMAIN prog |-> Pending]
    /\ trace = [r \in DOMAIN prog |-> <<>>]
    /\ fault = FALSE
    /\ calls = [cb \in Callbacks |-> 0]
    /\ lastCall = NoCall
    /\ events = 0
    /\ p5Instance = UndefinedRef
    /\ eventHandlers = EmptyMap
    /\ global \in SUBSET HostNames

\* Init(query): querySelector, container.Set("innerHTML", "") (Set panics
\* on null), global.Get("p5").New(sketch, container) (New panics on
\* undefined).  The library creates the instance and calls the sketch closure
\* during New or keeps it for later.
InitCall(r) ==
    /\ ~fault
    /\ pc[r] = "idle"
    /\ IF r = 1 THEN TRUE ELSE pc[r - 1] # "idle"
    /\ container' = [container EXCEPT ![r] = QuerySelector(prog[r].query)]
    /\ IF container'[r] = Null
       THEN /\ fault' = TRUE
            /\ pc' = [pc EXCEPT ![r] = "panic"]
            /\ UNCHANGED <<innerHTML, inst, sketch, p5Instance>>
       ELSE /\ innerHTML' = ""
            /\ IF P5IsUndefined
               THEN /\ fault' = TRUE
                    /\ pc' = [pc EXCEPT ![r] = "panic"]
                    /\ UNCHANGED <<inst, sketch, p5Instance>>
               ELSE /\ pc' = [pc EXCEPT ![r] = "done"]
                    /\ UNCHANGED fault
                    /\ \/ /\ sketch' = [sketch EXCEPT ![r] = "sync"]
                          /\ p5Instance' = r
                          /\ inst' = [inst EXCEPT ![r] =
                                        [id |-> r, node |-> container'[r],
                                         props |-> setupSketch(EmptyMap),
                                         pointer |-> InitPointer]]
                       \/ /\ sketch' = [sketch EXCEPT ![r] = "pending"]
                          /\ inst' = [inst EXCEPT ![r] =
                                        [id |-> r, node |-> container'[r],
                                         props |-> EmptyMap,
                                         pointer |-> InitPointer]]
                          /\ UNCHANGED p5Instance
    /\ UNCHANGED <<prog, active, headScripts, scriptLoaded, p5Defined, ch,
                   canvas, result, trace, calls, lastCall, events,
                   eventHandlers, global>>

\* the library calls the sketch closure it kept: p5Instance = args[0];
\* setupSketch()
SketchCall(r) ==
    /\ ~fault
    /\ sketch[r] = "pending"
    /\ p5Instance' = inst[r].id
    /\ inst' = [inst EXCEPT ![r].props = setupSketch(@)]
    /\ sketch' = [sketch EXCEPT ![r] = "async"]
    /\ UNCHANGED <<prog, pc, active, container, innerHTML, headScripts,
                   scriptLoaded, p5Defined, ch, canvas, result, trace, fault,
                   calls, lastCall, events, eventHandlers, global>>

\* The package functions that forward to the instance in the package
\* variable p5Instance: Value.Call panics while the variable is undefined
\* (before Init, and until the library has called the sketch closure).

\* CreateCanvas(w, h): p5Instance.Call("createCanvas", w, h); the instance
\* takes that size
PackageCreateCanvas(w, h) ==
    /\ ~fault
    /\ events < MaxEvents
    /\ fault' = (p5Instance = UndefinedRef)
    /\ inst' = IF p5Instance = UndefinedRef THEN inst
               ELSE [inst EXCEPT ![p5Instance] =
                        MapSet(MapSet(@, "width", w), "height", h)]
    /\ lastCall' = [handler |-> "none", name |-> "CreateCanvas", on |-> p5Instance]
    /\ events' = events + 1
    /\ UNCHANGED <<prog, pc, active, container, innerHTML, headScripts,
                   scriptLoaded, p5Defined, ch, canvas, sketch, result,
                   trace, calls, p5Instance, eventHandlers, global>>

\* Background(args...): p5Instance.Call("background", args...)
PackageBackground ==
    /\ ~fault
    /\ events < MaxEvents
    /\ fault' = (p5Instance = UndefinedRef)
    /\ lastCall' = [handler |-> "none", name |-> "Background", on |-> p5Instance]
    /\ events' = events + 1
    /\ UNCHANGED <<prog, pc, active, container, innerHTML, headScripts,
                   scriptLoaded, p5Defined, ch, canvas, sketch, inst, result,
                   trace, calls, p5Instance, eventHandlers, global>>

\* Fill(args...): p5Instance.Call("fill", args...)
Fill ==
    /\ ~fault
    /\ events < MaxEvents
    /\ fault' = (p5Instance = UndefinedRef)
    /\ lastCall' = [handler |-> "none", name |-> "Fill", on |-> p5Instance]
    /\ events' = events + 1
    /\ UNCHANGED <<prog, pc, active, container, innerHTML, headScripts,
                   scriptLoaded, p5Defined, ch, canvas, sketch, inst, result,
                   trace, calls, p5Instance, eventHandlers, global>>

\* NoFill(): p5Instance.Call("noFill")
NoFill ==
    /\ ~fault
    /\ events < MaxEvents
    /\ fault' = (p5Instance = UndefinedRef)
    /\ lastCall' = [handler |-> "none", name |-> "NoFill", on |-> p5Instance]
    /\ events' = events + 1
    /\ UNCHANGED <<prog, pc, active, container, innerHTML, headScripts,
                   scriptLoaded, p5Defined, ch, canvas, sketch, inst, result,
                   trace, calls, p5Instance, eventHandlers, global>>

\* NoStroke(): p5Instance.Call("noStroke")
NoStroke ==
    /\ ~fault
    /\ events < MaxEvents
    /\ fault' = (p5Instance = UndefinedRef)
    /\ lastCall' = [handler |-> "none", name |-> "NoStroke", on |-> p5Instance]
    /\ events' = events + 1
    /\ UNCHANGED <<prog, pc, active, container, innerHTML, headScripts,
                   scriptLoaded, p5Defined, ch, canvas, sketch, inst, result,
                   trace, calls, p5Instance, eventHandlers, global>>

\* Ellipse(x, y, w, h): p5Instance.Call("ellipse", x, y, w, h)
Ellipse ==
    /\ ~fault
    /\ events < MaxEvents
    /\ fault' = (p5Instance = UndefinedRef)
    /\ lastCall' = [handler |-> "none", name |-> "Ellipse", on |-> p5Instance]
    /\ events' = events + 1
    /\ UNCHANGED <<prog, pc, active, container, innerHTML, headScripts,
                   scriptLoaded, p5Defined, ch, canvas, sketch, inst, result,
                   trace, calls, p5Instance, eventHandlers, global>>

\* Rect(x, y, w, h): p5Instance.Call("rect", x, y, w, h)
Rect ==
    /\ ~fault
    /\ events < MaxEvents
    /\ fault' = (p5Instance = UndefinedRef)
    /\ lastCall' = [handler |-> "none", name |-> "Rect", on |-> p5Instance]
    /\ events' = events + 1
    /\ UNCHANGED <<prog, pc, active, container, innerHTML, headScripts,
                   scriptLoaded, p5Defined, ch, canvas, sketch, inst, result,
                   trace, calls, p5Instance, eventHandlers, global>>

\* SetEventHandler(eventName, handler), at any time
SetEventHandler(eventName, handler) ==
    /\ ~fault
    /\ eventHandlers' = MapSet(eventHandlers, eventName, handler)
    /\ UNCHANGED <<prog, pc, active, container, innerHTML, headScripts,
                   scriptLoaded, p5Defined, ch, canvas, sketch, inst, result,
                   trace, fault, calls, lastCall, events, p5Instance, global>>

\* a host script defines, or deletes, a global function
HostDefines(name) ==
    /\ ~fault
    /\ global' = IF name \in global THEN global \ {name} ELSE global \cup {name}
    /\ UNCHANGED <<prog, pc, active, container, innerHTML, headScripts,
                   scriptLoaded, p5Defined, ch, canvas, sketch, inst, result,
                   trace, fault, calls, lastCall, events, p5Instance,
                   eventHandlers>>

\* the runtime calls the closure installed under name on instance r
InvokeEventAdapter(r, name, args) ==
    /\ ~fault
    /\ events < MaxEvents
    /\ inst[r] # NoInst
    /\ name \in DOMAIN inst[r].props
    /\ inst[r].props[name].kind = "byName"
    /\ LET call == EventAdapterCall(eventHandlers, inst[r].props[name].name, args)
       IN /\ fault' = call.panics
          /\ calls' = IF call.times = 0 THEN calls
                      ELSE [calls EXCEPT ![call.handler] = @ + call.times]
          /\ lastCall' = [handler |-> call.handler, times |-> call.times,
                          arg |-> call.arg, args |-> args, on |-> r,
                          name |-> name]
    /\ events' = events + 1
    /\ UNCHANGED <<prog, pc, active, container, innerHTML, headScripts,
                   scriptLoaded, p5Defined, ch, canvas, sketch, inst, result,
                   trace, p5Instance, eventHandlers, global>>

NextPackage ==
    \/ \E r \in Sessions : InitCall(r)
    \/ \E r \in Sessions : SketchCall(r)
    \/ \E name \in HandlerNames, handler \in Callbacks :
         SetEventHandler(name, handler)
    \/ \E name \in HostNames : HostDefines(name)
    \/ \E r \in Sessions, name \in HandlerNames,
          args \in ArgLists(MaxArgs + 1) :
         InvokeEventAdapter(r, name, args)
    \/ \E w \in Sizes, h \in Sizes : PackageCreateCanvas(w, h)
    \/ PackageBackground
    \/ Fill
    \/ NoFill
    \/ NoStroke
    \/ Ellipse
    \/ Rect

SpecPackage == InitPackage /\ [][NextPackage]_vars

----------------------------------------------------------------------------
(* Properties *)

\* the list fs holds a Func for hook
HasHook(fs, hook) == \E i \in 1..Len(fs) : fs[i].hook = hook

\* the position of the last Func for hook in fs
LastIndex(fs, hook) ==
    CHOOSE i \in 1..Len(fs) :
        /\ fs[i].hook = hook
        /\ \A j \in 1..Len(fs) : fs[j].hook = hook => j <= i

\* how many Funcs for hook the list fs holds
CountHook(fs, hook) == Cardinality({i \in 1..Len(fs) : fs[i].hook = hook})

\* the position of step in the trace t, 0 when absent
IndexOf(t, step) ==
    IF \E i \in 1..Len(t) : t[i] = step
    THEN CHOOSE i \in 1..Len(t) : t[i] = step /\ \A j \in 1..(i - 1) : t[j] # step
    ELSE 0

\* how often step occurs in the trace t
CountStep(t, step) == Cardinality({i \in 1..Len(t) : t[i] = step})

\* the text of the mount-not-found error for a selector
NotMatchText(query) ==
    IF query = "#missing" THEN "#missing is not match"
    ELSE "#container is not match"

\* the selector of call r resolves to no element
Unresolved(r) == QuerySelector(prog[r].query) = Null

\* C1: for a selector that resolves to no element, Run returns the
\* mount-not-found error and does nothing else: the only step of the call is
\* the lookup, the step leaves the document, the library and every Canvas and
\* instance as they were, no script element is appended, no Canvas or
\* instance is created and no Func is applied.
C1_MountNotFound ==
    /\ [](\A r \in Sessions :
            (pc[r] # "idle" /\ Unresolved(r)) =>
                /\ pc[r] = "done"
                /\ result[r] = NotMatchText(prog[r].query)
                /\ trace[r] = <<"Resolve", "Return">>
                /\ canvas[r] = NoCanvas
                /\ inst[r] = NoInst
                /\ sketch[r] = "none"
                /\ ch[r] = "nil"
                /\ r \notin headScripts
                /\ ~fault)
    /\ [][\A r \in Sessions :
            (pc[r] = "idle" /\ pc'[r] # "idle" /\ Unresolved(r)) =>
                UNCHANGED <<innerHTML, headScripts, scriptLoaded, p5Defined,
                            canvas, inst, sketch, ch, calls, lastCall>>]_vars

C1_Witness ==
    \E r \in Sessions :
        /\ pc[r] = "done"
        /\ Unresolved(r)
        /\ result[r] = "#missing is not match"
        /\ HasHook(prog[r].fs, "setup")
        /\ HasHook(prog[r].fs, "draw")
        /\ innerHTML = "stale"

\* Run of call r got to Validate with the instance handed to the closure
ValidatedBound(r) ==
    /\ pc[r] = "done"
    /\ ~Unresolved(r)
    /\ sketch[r] = "sync"

C3_Success ==
    \A r \in Sessions :
        (/\ ValidatedBound(r)
         /\ HasHook(prog[r].fs, "setup")
         /\ HasHook(prog[r].fs, "draw")) => result[r] = "nil"

C3_Witness ==
    \E r \in Sessions :
        /\ ValidatedBound(r)
        /\ Len(prog[r].fs) = 3
        /\ prog[r].fs[1].hook = "mousePressed"
        /\ prog[r].fs[2].hook = "draw"
        /\ prog[r].fs[3].hook = "setup"
        /\ r \in scriptLoaded
        /\ result[r] = "nil"

\* C4: once the closure has run, a hook name registered more than once is
\* bound, in the registry and on the instance, to the adapter the last of
\* its Funcs created, with that Func's handler; and every call the runtime
\* makes through that hook reaches the last Func's handler, never an
\* earlier one's.
C4_LastRegistrationWins ==
    /\ \A r \in Sessions :
         sketch[r] \in {"sync", "async"} =>
            \A h \in HookNames :
                CountHook(prog[r].fs, h) >= 2 =>
                    LET last == LastIndex(prog[r].fs, h)
                    IN /\ h \in DOMAIN inst[r].props
                       /\ inst[r].props[h].fn = last
                       /\ inst[r].props[h].handler = prog[r].fs[last].handler
                       /\ canvas[r].funcHandlers[h] = inst[r].props[h]
    /\ lastCall # NoCall =>
         LET fs == prog[lastCall.on].fs
         IN CountHook(fs, lastCall.hook) >= 2 =>
               /\ lastCall.fn = LastIndex(fs, lastCall.hook)
               /\ lastCall.handler = fs[LastIndex(fs, lastCall.hook)].handler

C4_Witness ==
    \E r \in Sessions :
        /\ prog[r].fs = <<Setup("fnA"), Draw("fnA"), Setup("fnB")>>
        /\ sketch[r] = "sync"
        /\ inst[r].props["setup"].handler = "fnB"
        /\ lastCall # NoCall
        /\ lastCall.hook = "setup"
        /\ lastCall.handler = "fnB"
        /\ calls["fnA"] = 0

\* C5: Validate checks the instance, then setup, then draw, and reports
\* the first failing check alone: an undefined instance is reported whatever
\* the registry holds, a missing setup is reported whether or not draw is
\* missing too (the empty registry included), and draw is reported only
\* when the instance and setup are there.
C5_ValidateOrder ==
    \A r \in Sessions :
        pc[r] = "validated" =>
            LET c == canvas[r]
                hasSetup == "setup" \in DOMAIN c.funcHandlers
                hasDraw == "draw" \in DOMAIN c.funcHandlers
            IN /\ c.p5Instance = UndefinedRef => result[r] = "p5.js is not loaded"
               /\ (c.p5Instance # UndefinedRef /\ ~hasSetup) =>
                      result[r] = "setup function is not defined"
               /\ (c.p5Instance # UndefinedRef /\ hasSetup /\ ~hasDraw) =>
                      result[r] = "draw function is not defined"
               /\ (c.p5Instance # UndefinedRef /\ hasSetup /\ hasDraw) =>
                      result[r] = "nil"

C5_Witness ==
    \E r \in Sessions :
        /\ pc[r] = "validated"
        /\ canvas[r].p5Instance = UndefinedRef
        /\ DOMAIN canvas[r].funcHandlers = {"setup", "draw"}
        /\ result[r] = "p5.js is not loaded"

\* the values Run returns
RunResults(r) ==
    {"nil", NotMatchText(prog[r].query), "p5.js is not loaded",
     "setup function is not defined", "draw function is not defined"}

\* C6: Run never panics; every call that has ended has returned, once, nil
\* or one of the four errors; a call that has not returned has returned
\* nothing; and Run gives the thread back to the host only parked in the
\* library wait or returned, so a call past the wait runs on to its return.
C6_FailuresAreReturned ==
    /\ ~fault
    /\ \A r \in Sessions :
         /\ pc[r] # "panic"
         /\ pc[r] = "done" =>
               /\ result[r] \in RunResults(r)
               /\ CountStep(trace[r], "Return") = 1
         /\ pc[r] # "done" =>
               /\ result[r] = Pending
               /\ CountStep(trace[r], "Return") = 0
         /\ Unresolved(r) /\ pc[r] # "idle" => pc[r] = "done"
         /\ active = 0 => pc[r] \in {"idle", "wait", "done"}

C6_Witness ==
    \E r \in Sessions :
        /\ pc[r] = "done"
        /\ r \in scriptLoaded
        /\ result[r] = "p5.js is not loaded"
        /\ HasHook(prog[r].fs, "setup")
        /\ sketch[r] = "async"

\* a step in which the runtime calls an installed adapter
AdapterStep == events' = events + 1 /\ inst' = inst

\* C7: each time the runtime calls an installed adapter, with any number of
\* event arguments, exactly one caller callback is called, exactly once:
\* the handler of the Func that created the adapter installed under that
\* hook; it is given the Canvas of the session whose instance the adapter
\* is installed on, and the adapter returns null.
C7_AdapterCallsHandlerOnce ==
    [][AdapterStep =>
        LET call == lastCall'
            f == prog[call.on].fs[call.fn]
        IN /\ call.hook \in DOMAIN inst[call.on].props
           /\ inst[call.on].props[call.hook].fn = call.fn
           /\ f.hook = call.hook
           /\ call.handler = f.handler
           /\ calls' = [calls EXCEPT ![f.handler] = @ + 1]
           /\ call.c = call.on
           /\ canvas[call.c].p5Instance = inst[call.on].id
           /\ call.ret = Null]_vars

C7_Witness ==
    \E r \in Sessions :
        /\ result[r] = "nil"
        /\ lastCall # NoCall
        /\ lastCall.hook = "setup"
        /\ lastCall.on = r
        /\ lastCall.c = r
        /\ lastCall.nargs = 1
        /\ lastCall.handler = "fnB"
        /\ calls = [cb \in Callbacks |-> IF cb = "fnB" THEN 1 ELSE 0]

\* C8: when the runtime calls the adapter installed for mousePressed, the
\* handler gets the session's Canvas and an event whose X, Y, Button and
\* Pressed are the instance's mouseX, mouseY, mouseButton (as a string) and
\* mouseIsPressed at the time of the call.
C8_MousePressedEvent ==
    [][(AdapterStep /\ lastCall'.hook = "mousePressed") =>
        LET call == lastCall'
            ptr == inst[call.on].pointer
        IN /\ call.c = call.on
           /\ call.handler = prog[call.on].fs[call.fn].handler
           /\ call.e.X = ptr.mouseX
           /\ call.e.Y = ptr.mouseY
           /\ call.e.Pressed = ptr.mouseIsPressed
           /\ call.e.Button = JsString(ptr.mouseButton)
           /\ ptr.mouseButton \in {"left", "right", "center"} =>
                  call.e.Button = ptr.mouseButton]_vars

C8_Witness ==
    /\ lastCall # NoCall
    /\ lastCall.hook = "mousePressed"
    /\ lastCall.e = [X |-> 1, Y |-> 2, Button |-> "right", Pressed |-> TRUE]
    /\ inst[lastCall.on].pointer # InitPointer

\* C9 as stated: Validate runs only after Bind has completed, however the
\* library calls the closure.
C9_ValidateAfterBind ==
    \A r \in Sessions :
        IndexOf(trace[r], "Validate") > 0 =>
            /\ IndexOf(trace[r], "Bind") > 0
            /\ IndexOf(trace[r], "Bind") < IndexOf(trace[r], "Validate")

\* C9 amended: Validate runs directly after the constructor call returns.
\* It runs after Bind when the library calls the closure during the
\* constructor call; when the library has not called the closure by then,
\* Validate runs on the unbound Canvas, Run returns the not-loaded error,
\* and a later call of the closure binds after Run has returned.
C9_ValidateAfterSyncBind ==
    \A r \in Sessions :
        IndexOf(trace[r], "Validate") > 0 =>
            /\ IndexOf(trace[r], "Validate") = IndexOf(trace[r], "Construct") +
                   (IF sketch[r] = "sync" THEN 2 ELSE 1)
            /\ sketch[r] = "sync" =>
                   /\ IndexOf(trace[r], "Bind") = IndexOf(trace[r], "Construct") + 1
                   /\ result[r] # "p5.js is not loaded"
            /\ sketch[r] = "async" =>
                   /\ IndexOf(trace[r], "Bind") > IndexOf(trace[r], "Return")
                   /\ result[r] = "p5.js is not loaded"
            /\ sketch[r] = "pending" =>
                   /\ IndexOf(trace[r], "Bind") = 0
                   /\ result[r] = "p5.js is not loaded"

C9_Witness ==
    \E r \in Sessions :
        /\ sketch[r] = "async"
        /\ result[r] = "p5.js is not loaded"
        /\ IndexOf(trace[r], "Validate") < IndexOf(trace[r], "Bind")
        /\ DOMAIN inst[r].props = {"setup", "draw"}

\* C10: at the library check, an absent library makes Run append its script
\* element and park in the wait, and a present library makes Run go on to
\* construct with no script element and no wait; a call that appended a
\* script element is not at or past the constructor call before that
\* element's load callback has fired.
C10_LibraryLoad ==
    /\ [][\A r \in Sessions :
            (pc[r] = "libcheck" /\ pc'[r] # "libcheck") =>
                IF ~p5Defined
                THEN /\ r \notin headScripts
                     /\ headScripts' = headScripts \cup {r}
                     /\ pc'[r] = "wait"
                ELSE /\ headScripts' = headScripts
                     /\ pc'[r] = "construct"]_vars
    /\ [](\A r \in Sessions :
            /\ (r \in headScripts /\ pc[r] # "wait") =>
                   /\ r \in scriptLoaded
                   /\ IndexOf(trace[r], "Resume") > 0
            /\ (r \notin headScripts /\ IndexOf(trace[r], "Construct") > 0) =>
                   /\ IndexOf(trace[r], "LoadScript") = 0
                   /\ IndexOf(trace[r], "Resume") = 0
                   /\ IndexOf(trace[r], "Construct") =
                          IndexOf(trace[r], "LibraryPresent") + 1
            /\ IndexOf(trace[r], "Construct") > 0 => p5Defined)

C10_Witness ==
    \E r \in Sessions :
        /\ pc[r] = "new"
        /\ headScripts = {r}
        /\ scriptLoaded = {r}
        /\ trace[r] = <<"Resolve", "Clear", "LoadScript", "Resume", "Construct">>

\* C11: when the constructor call returns without the library having called
\* the closure, the instance reference is still undefined and Run returns
\* "p5.js is not loaded", whatever Funcs were given (a Setup and a Draw
\* included); the Funcs have not been applied by then.
C11_InstanceNotInitialized ==
    \A r \in Sessions :
        /\ (pc[r] = "done" /\ sketch[r] \in {"pending", "async"}) =>
               result[r] = "p5.js is not loaded"
        /\ (pc[r] = "done" /\ sketch[r] = "pending") =>
               /\ canvas[r].p5Instance = UndefinedRef
               /\ canvas[r].funcHandlers = EmptyMap
               /\ inst[r].props = EmptyMap
        /\ (pc[r] = "new" /\ sketch[r] = "pending") =>
               /\ canvas[r].p5Instance = UndefinedRef
               /\ Validate(canvas[r]) = "p5.js is not loaded"

C11_Witness ==
    \E r \in Sessions :
        /\ pc[r] = "done"
        /\ sketch[r] = "pending"
        /\ HasHook(prog[r].fs, "setup")
        /\ HasHook(prog[r].fs, "draw")
        /\ result[r] = "p5.js is not loaded"

\* the hook name that goes with each builder
ExpectedHook(name) ==
    CASE name = "Preload" -> "preload"
      [] name = "Setup" -> "setup"
      [] name = "Draw" -> "draw"
      [] name = "MouseMoved" -> "mouseMoved"
      [] name = "MouseDragged" -> "mouseDragged"
      [] name = "MousePressed" -> "mousePressed"
      [] name = "MouseReleased" -> "mouseReleased"
      [] name = "MouseClicked" -> "mouseClicked"
      [] name = "DoubleClicked" -> "doubleClicked"
      [] name = "MouseWheel" -> "mouseWheel"
      [] name = "KeyPressed" -> "keyPressed"
      [] name = "KeyReleased" -> "keyReleased"
      [] name = "KeyTyped" -> "keyTyped"

\* the hook names the Funcs of the list fs write
HooksOf(fs) == {fs[i].hook : i \in 1..Len(fs)}

\* C12: the thirteen builders and the thirteen hook names of the closed set
\* go one to one; the Func of a builder, applied to any Canvas Run has
\* created, writes the key of its own hook name and no other key; so the
\* keys of every registry and the hook properties on every instance are
\* among the thirteen names, and once the closure has run they are the hook
\* names of the builders the caller used.
C12_OneBuilderPerHook ==
    /\ Cardinality(BuilderNames) = 13
    /\ {ExpectedHook(n) : n \in BuilderNames} = HookNames
    /\ \A n \in BuilderNames, m \in BuilderNames, cb \in Callbacks :
         /\ Builder(n, cb).hook = ExpectedHook(n)
         /\ n # m => Builder(n, cb).hook # Builder(m, cb).hook
    /\ \A r \in Sessions :
         /\ canvas[r] # NoCanvas =>
              /\ DOMAIN canvas[r].funcHandlers \subseteq HookNames
              /\ \A n \in BuilderNames, cb \in Callbacks :
                   LET after == ApplyFunc(Builder(n, cb), canvas[r], 1).funcHandlers
                   IN /\ DOMAIN after =
                            DOMAIN canvas[r].funcHandlers \cup {ExpectedHook(n)}
                      /\ \A k \in DOMAIN canvas[r].funcHandlers :
                            k # ExpectedHook(n) => after[k] = canvas[r].funcHandlers[k]
         /\ inst[r] # NoInst => DOMAIN inst[r].props \subseteq HookNames
         /\ sketch[r] \in {"sync", "async"} =>
              /\ DOMAIN canvas[r].funcHandlers = HooksOf(prog[r].fs)
              /\ DOMAIN inst[r].props = HooksOf(prog[r].fs)

C12_Witness ==
    \E r \in Sessions :
        /\ prog[r].fs = <<KeyTyped("fnA"), DoubleClicked("fnB")>>
        /\ sketch[r] = "sync"
        /\ DOMAIN canvas[r].funcHandlers = {"keyTyped", "doubleClicked"}
        /\ DOMAIN inst[r].props = {"keyTyped", "doubleClicked"}

\* the place of a step in the order Resolve, Clear, library wait (begun,
\* ended), Construct, Bind, Validate, return
StepRank(step) ==
    CASE step = "Resolve" -> 1
      [] step = "Clear" -> 2
      [] step = "LoadScript" -> 3
      [] step = "LibraryPresent" -> 3
      [] step = "Resume" -> 4
      [] step = "Construct" -> 5
      [] step = "Bind" -> 6
      [] step = "Validate" -> 7
      [] step = "Return" -> 8

\* the steps of t follow the order, none of them twice (each step is ranked
\* above the one before it)
InOrder(t) == \A i \in 1..(Len(t) - 1) : StepRank(t[i]) < StepRank(t[i + 1])

\* the steps of t other than Bind follow the order, none of them twice
InOrderButBind(t) ==
    \A i \in 1..(Len(t) - 1) :
        /\ (t[i] # "Bind" /\ t[i + 1] # "Bind") =>
               StepRank(t[i]) < StepRank(t[i + 1])
        /\ (t[i + 1] = "Bind" /\ i + 2 <= Len(t)) =>
               /\ t[i] # "Bind"
               /\ t[i + 2] # "Bind"
               /\ StepRank(t[i]) < StepRank(t[i + 2])

\* C13 as stated: the steps of a Run call happen at most once each, in the
\* order Resolve, Clear, library wait, Construct, Bind, Validate.
C13_LinearOrder ==
    \A r \in Sessions : InOrder(trace[r])

\* C13 amended: Resolve, Clear, the library wait, Construct and Validate
\* happen at most once each and in this order, the selector is looked up
\* once, and the mount point is cleared before the wait begins and before
\* Construct; Bind happens at most once and after Construct: before
\* Validate when the library calls the closure during the constructor call,
\* after the return of Run otherwise.
C13_LinearOrderButBind ==
    \A r \in Sessions :
        /\ InOrderButBind(trace[r])
        /\ CountStep(trace[r], "Bind") <= 1
        /\ pc[r] # "idle" =>
               /\ CountStep(trace[r], "Resolve") = 1
               /\ trace[r][1] = "Resolve"
        /\ (IndexOf(trace[r], "LoadScript") > 0 \/ IndexOf(trace[r], "Construct") > 0) =>
               /\ IndexOf(trace[r], "Clear") = 2
               /\ innerHTML = ""
        /\ IndexOf(trace[r], "Bind") > 0 =>
               /\ IndexOf(trace[r], "Construct") > 0
               /\ IndexOf(trace[r], "Construct") < IndexOf(trace[r], "Bind")
               /\ sketch[r] = "sync" => InOrder(trace[r])
               /\ sketch[r] = "async" =>
                      /\ IndexOf(trace[r], "Return") > 0
                      /\ IndexOf(trace[r], "Return") < IndexOf(trace[r], "Bind")

C13_Witness ==
    \E r \in Sessions :
        trace[r] = <<"Resolve", "Clear", "LoadScript", "Resume", "Construct",
                     "Bind", "Validate", "Return">>

\* C14: every call that waits has made its own script element and its own
\* channel; a channel is closed by the load callback of its own call's
\* script element and by nothing else, so a call is past the wait only
\* when its own callback has fired, and a call whose own callback has not
\* fired is still parked, whatever other callbacks have fired; no channel
\* is closed twice (closing a closed channel would panic).
C14_OneShotSignal ==
    /\ ~fault
    /\ \A r \in Sessions :
         /\ r \in headScripts <=> ch[r] # "nil"
         /\ ch[r] = "closed" <=> r \in scriptLoaded
         /\ IndexOf(trace[r], "Resume") > 0 => ch[r] = "closed"
         /\ ch[r] = "open" =>
              /\ pc[r] = "wait"
              /\ IndexOf(trace[r], "Resume") = 0
         /\ CountStep(trace[r], "Resume") <= 1
         /\ CountStep(trace[r], "LoadScript") <= 1

C14_Witness ==
    /\ headScripts = {1, 2}
    /\ scriptLoaded = {2}
    /\ p5Defined
    /\ pc[2] = "done"
    /\ pc[1] = "wait"
    /\ ch[1] = "open"

\* C15: for as long as the load callback of a call's script element has not
\* fired, the call is parked in the wait: it has not returned, it has
\* created no Canvas and no instance, the closure has not run and Validate
\* has not been called, while the mount point is already cleared.  The
\* wait has no other way out, so a callback that never fires leaves the
\* call there for ever.
C15_LoadFailureHangs ==
    \A r \in Sessions :
        (r \in headScripts /\ r \notin scriptLoaded) =>
            /\ pc[r] = "wait"
            /\ result[r] = Pending
            /\ trace[r] = <<"Resolve", "Clear", "LoadScript">>
            /\ canvas[r] = NoCanvas
            /\ inst[r] = NoInst
            /\ sketch[r] = "none"
            /\ innerHTML = ""
            /\ ch[r] = "open"
            /\ ~ReceiveReady(ch[r])

C15_Witness ==
    \E r \in Sessions :
        /\ pc[r] = "wait"
        /\ r \in headScripts
        /\ scriptLoaded = {}
        /\ ~p5Defined
        /\ innerHTML = ""
        /\ result[r] = Pending
        /\ HasHook(prog[r].fs, "setup")
        /\ HasHook(prog[r].fs, "draw")

\* C16: once the closure has run, the hook properties on the instance are
\* the keys of the registry, each holding the very adapter the registry
\* holds under that name, and no property is installed under a name the
\* registry lacks, in whatever order the registry was ranged over; before
\* the closure has run the instance carries no hook property.
C16_InstalledEqualsRegistry ==
    \A r \in Sessions :
        /\ sketch[r] \in {"sync", "async"} =>
              /\ DOMAIN inst[r].props = DOMAIN canvas[r].funcHandlers
              /\ \A h \in DOMAIN canvas[r].funcHandlers :
                    inst[r].props[h] = canvas[r].funcHandlers[h]
              /\ \A h \in HookNames :
                    h \notin DOMAIN canvas[r].funcHandlers =>
                        h \notin DOMAIN inst[r].props
        /\ sketch[r] = "pending" => inst[r].props = EmptyMap

C16_Witness ==
    \E r \in Sessions :
        /\ sketch[r] = "sync"
        /\ Len(prog[r].fs) = 3
        /\ DOMAIN canvas[r].funcHandlers = {"setup", "draw", "mousePressed"}
        /\ inst[r].props = canvas[r].funcHandlers
        /\ inst[r].props["mousePressed"].handler = "fnB"

\* C17: applying a Func to a Canvas writes the registry entry of the Func's
\* own hook name, with an adapter for the Func's handler, and changes
\* nothing else: every other registry entry and the instance reference stay
\* as they were, the instance's properties stay as they were (nothing is
\* installed by the Func), and no caller callback is called.
C17_ApplyFrame ==
    [][\A r \in Sessions :
        (pc[r] = "apply" /\ pc'[r] = "applied") =>
            LET f == prog[r].fs[1]
                before == canvas[r].funcHandlers
                after == canvas'[r].funcHandlers
            IN /\ DOMAIN after = DOMAIN before \cup {f.hook}
               /\ \A k \in DOMAIN before : k # f.hook => after[k] = before[k]
               /\ after[f.hook].handler = f.handler
               /\ canvas'[r].p5Instance = canvas[r].p5Instance
               /\ canvas'[r].id = canvas[r].id
               /\ inst' = inst
               /\ calls' = calls
               /\ lastCall' = lastCall]_vars

C17_Witness ==
    /\ pc[1] = "applied"
    /\ prog[1].fs = <<Setup("fnB")>>
    /\ DOMAIN canvas[1].funcHandlers = {"draw", "setup"}
    /\ canvas[1].funcHandlers["draw"].handler = "fnA"
    /\ canvas[1].funcHandlers["setup"].handler = "fnB"
    /\ canvas[1].p5Instance = 1
    /\ inst[1].props = EmptyMap
    /\ calls = [cb \in Callbacks |-> 0]

\* the Funcs of fs for the hook h, in their order
RECURSIVE OfHook(_, _)
OfHook(fs, h) ==
    IF fs = <<>> THEN <<>>
    ELSE IF Head(fs).hook = h THEN <<Head(fs)>> \o OfHook(Tail(fs), h)
    ELSE OfHook(Tail(fs), h)

\* gs holds the Funcs of fs, those sharing a hook name in the same order
SameHookOrder(fs, gs) ==
    /\ Len(fs) = Len(gs)
    /\ \A h \in HookNames : OfHook(fs, h) = OfHook(gs, h)

\* which callback each hook name is bound to
BoundCallbacks(props) == [h \in DOMAIN props |-> props[h].handler]

\* C18: two Run calls whose lists hold the same Funcs in different orders,
\* the Funcs sharing a hook name in the same relative order, bind the same
\* hook names to the same callbacks, in the registry and on the instance,
\* and, the library calling the closure in the same way for both, return
\* the same value.
C18_PermutationInvariance ==
    SameHookOrder(prog[1].fs, prog[2].fs) =>
        /\ (sketch[1] \in {"sync", "async"} /\ sketch[2] \in {"sync", "async"}) =>
              /\ BoundCallbacks(inst[1].props) = BoundCallbacks(inst[2].props)
              /\ BoundCallbacks(canvas[1].funcHandlers) =
                     BoundCallbacks(canvas[2].funcHandlers)
        /\ (pc[1] = "done" /\ pc[2] = "done"
              /\ (sketch[1] = "sync" <=> sketch[2] = "sync")) =>
              result[1] = result[2]

C18_Witness ==
    /\ prog[1].fs = <<Setup("fnA"), Setup("fnB"), Draw("fnA")>>
    /\ prog[2].fs = <<Draw("fnA"), Setup("fnA"), Setup("fnB")>>
    /\ sketch[1] = "sync"
    /\ sketch[2] = "sync"
    /\ result[1] = "nil"
    /\ result[2] = "nil"
    /\ BoundCallbacks(inst[1].props) = BoundCallbacks(inst[2].props)
    /\ inst[2].props["setup"].handler = "fnB"

\* C19: after Run has returned the error naming setup or the error naming
\* draw, and for as long as the program runs on, the mount point stays
\* cleared, the instance New created is still there on the mount point, and
\* every hook the caller registered is still installed on it with the
\* adapter of the registry, so the runtime can still call it.
C19_NoRollback ==
    \A r \in Sessions :
        (pc[r] = "done" /\ result[r] \in {"setup function is not defined",
                                          "draw function is not defined"}) =>
            /\ innerHTML = ""
            /\ inst[r] # NoInst
            /\ inst[r].node = "container"
            /\ canvas[r].p5Instance = inst[r].id
            /\ DOMAIN inst[r].props = HooksOf(prog[r].fs)
            /\ inst[r].props = canvas[r].funcHandlers
            /\ \A h \in HooksOf(prog[r].fs) :
                  inst[r].props[h].handler = prog[r].fs[LastIndex(prog[r].fs, h)].handler

C19_Witness ==
    \E r \in Sessions :
        /\ pc[r] = "done"
        /\ result[r] = "setup function is not defined"
        /\ prog[r].fs = <<Draw("fnA")>>
        /\ DOMAIN inst[r].props = {"draw"}
        /\ lastCall # NoCall
        /\ lastCall.hook = "draw"
        /\ lastCall.on = r
        /\ calls["fnA"] = 1

\* the adapters held in a registry or installed on an instance
AdaptersOf(m) == {m[h] : h \in DOMAIN m}

\* C20: every Run call that gets to Construct creates a Canvas of its own,
\* with an empty registry until the closure runs; the adapters in a
\* session's registry and on its instance were created for that session's
\* Canvas, none of them is in another session's registry or on another
\* session's instance, also when both calls were given the same Funcs; and
\* whenever the runtime calls an adapter through a session's instance, the
\* callback gets that session's Canvas.
C20_SessionsShareNothing ==
    /\ \A r \in Sessions :
         /\ canvas[r] # NoCanvas =>
              /\ canvas[r].id = r
              /\ canvas[r].p5Instance \in {UndefinedRef, r}
              /\ \A a \in AdaptersOf(canvas[r].funcHandlers) : a.c = r
         /\ sketch[r] = "pending" => canvas[r].funcHandlers = EmptyMap
         /\ inst[r] # NoInst =>
              /\ inst[r].id = r
              /\ \A a \in AdaptersOf(inst[r].props) : a.c = r
    /\ \A r \in Sessions, q \in Sessions :
         (r # q /\ canvas[r] # NoCanvas /\ canvas[q] # NoCanvas /\ inst[q] # NoInst) =>
              /\ canvas[r] # canvas[q]
              /\ AdaptersOf(canvas[r].funcHandlers) \cap
                    (AdaptersOf(canvas[q].funcHandlers) \cup AdaptersOf(inst[q].props)) = {}
    /\ lastCall # NoCall =>
         /\ lastCall.c = lastCall.on
         /\ canvas[lastCall.c].p5Instance = inst[lastCall.on].id

C20_Witness ==
    /\ prog[1].fs = <<Setup("fnA"), Draw("fnB")>>
    /\ prog[2].fs = prog[1].fs
    /\ sketch[1] = "sync"
    /\ sketch[2] = "sync"
    /\ result[1] = "nil"
    /\ result[2] = "nil"
    /\ inst[1].props["setup"] # inst[2].props["setup"]
    /\ lastCall # NoCall
    /\ lastCall.on = 2
    /\ lastCall.c = 2
    /\ lastCall.handler = "fnA"

\* C21: the clear leaves the mount point empty, on a mount point with
\* content and on one that is already empty alike, and faults on neither:
\* of two Run calls on the same existing selector each has passed the Clear
\* step once it is past the lookup, and the mount point is empty from the
\* first clear on.
C21_ClearIdempotent ==
    /\ ~fault
    /\ \A r \in Sessions :
         /\ pc[r] # "panic"
         /\ pc[r] \notin {"idle", "clear"} => IndexOf(trace[r], "Clear") = 2
         /\ IndexOf(trace[r], "Clear") > 0 => innerHTML = ""
    /\ (\A r \in Sessions : pc[r] = "idle") => innerHTML = "stale"

C21_Witness ==
    /\ IndexOf(trace[1], "Clear") > 0
    /\ IndexOf(trace[2], "Clear") > 0
    /\ pc[1] = "done"
    /\ pc[2] = "done"
    /\ innerHTML = ""
    /\ prog[1].query = prog[2].query

\* the most recent call was a call of the Canvas method `method`
LastMethodIs(method) ==
    /\ "method" \in DOMAIN lastCall
    /\ lastCall.method = method

\* a step in which the caller applies a further Func to a Canvas
FuncStep ==
    /\ events' = events + 1
    /\ "method" \in DOMAIN lastCall'
    /\ lastCall'.method = "Func"

\* C22: once the closure has run for a session, no step of Run, of the
\* runtime or of a Canvas method changes the session's registry, its
\* instance reference or the hook properties on its instance: not Validate
\* and the return of Run, not the runtime calling an adapter (during the
\* constructor call or later), not CreateCanvas, Size, a forwarding method,
\* CreateGraphics or Validate called by the caller.  (A Func the caller
\* applies to the Canvas by hand writes the registry, as every Func does;
\* it changes neither the instance reference nor the instance.)
C22_NoMutationAfterBind ==
    [][\A r \in Sessions :
        sketch[r] \in {"sync", "async"} =>
            /\ ~FuncStep => canvas'[r].funcHandlers = canvas[r].funcHandlers
            /\ canvas'[r].p5Instance = canvas[r].p5Instance
            /\ inst'[r].props = inst[r].props
            /\ sketch'[r] = sketch[r]]_vars

C22_Witness ==
    /\ pc[1] = "done"
    /\ sketch[1] = "sync"
    /\ result[1] = "nil"
    /\ LastMethodIs("CreateCanvas")
    /\ lastCall.on = 1
    /\ calls["fnA"] = 1
    /\ events = 2
    /\ prog[1].fs = <<Setup("fnA"), Draw("fnB")>>
    /\ DOMAIN canvas[1].funcHandlers = {"setup", "draw"}
    /\ inst[1].props = canvas[1].funcHandlers

\* a step in which the caller calls CreateCanvas or Size on the Canvas k
SizeCallStep(k) ==
    /\ events' = events + 1
    /\ "method" \in DOMAIN lastCall'
    /\ lastCall'.method \in {"CreateCanvas", "Size"}
    /\ lastCall'.on = k

\* C23: the Canvas Run creates starts with Width and Height 0; a call of
\* CreateCanvas or Size on it makes Width and Height the width and height
\* passed (Size also when its call on the instance panics afterwards); and
\* every other step (the other Canvas methods, the runtime's calls, the
\* rest of Run) leaves them as they are, so that they are those of the most
\* recent such call.
C23_WidthHeight ==
    [][\A r \in Sessions :
        /\ (canvas[r] = NoCanvas /\ canvas'[r] # NoCanvas) =>
               /\ Width(canvas'[r]) = 0
               /\ Height(canvas'[r]) = 0
        /\ canvas[r] # NoCanvas =>
               IF SizeCallStep(r)
               THEN /\ Width(canvas'[r]) = lastCall'.w
                    /\ Height(canvas'[r]) = lastCall'.h
               ELSE /\ Width(canvas'[r]) = Width(canvas[r])
                    /\ Height(canvas'[r]) = Height(canvas[r])]_vars

\* CreateCanvas(200, 100) called from a handler during the constructor
\* call, then Size(100, 200), which has written the fields
C23_Witness ==
    /\ LastMethodIs("Size")
    /\ lastCall.on = 1
    /\ lastCall.w = 100
    /\ lastCall.h = 200
    /\ events = 2
    /\ pc[1] = "new"
    /\ Len(canvas) = 1
    /\ Width(canvas[1]) = 100
    /\ Height(canvas[1]) = 200
    /\ fault
    /\ "width" \in DOMAIN inst[1]
    /\ inst[1].width = 200
    /\ inst[1].height = 100

\* C24: for the Canvas CreateGraphics(w, h) returned, Width is w and Height
\* is h.
C24_GraphicsWidthHeight ==
    (LastMethodIs("CreateGraphics") /\ "ret" \in DOMAIN lastCall) =>
        /\ Width(canvas[lastCall.ret]) = lastCall.w
        /\ Height(canvas[lastCall.ret]) = lastCall.h

\* the step in which Run of call r returns nil
ReturnsNil(r) ==
    /\ result[r] = Pending
    /\ result'[r] = Nil

\* the registry the sketch closure of call r builds from the list given to
\* Run
BoundRegistry(r) == Bind(NewCanvas(r), r, prog[r].fs).funcHandlers

\* C25 as stated: whenever Run returns nil, the session's instance reference
\* is the instance New created, and setup and draw are both installed on
\* that instance, each with the adapter the registry holds for it.
C25_SuccessMeansInstalled ==
    [][\A r \in Sessions :
        ReturnsNil(r) =>
            /\ inst'[r] # NoInst
            /\ canvas'[r].p5Instance # UndefinedRef
            /\ canvas'[r].p5Instance = inst'[r].id
            /\ \A h \in {"setup", "draw"} :
                  /\ h \in DOMAIN inst'[r].props
                  /\ h \in DOMAIN canvas'[r].funcHandlers
                  /\ inst'[r].props[h] = canvas'[r].funcHandlers[h]]_vars

\* C25: whenever Run returns nil, the session's instance reference is the
\* instance New created and the registry holds a setup and a draw adapter.
\* Of these two hooks, exactly those that a Func of the list given to Run
\* registered are installed on the instance, each with the adapter the
\* closure made from the last such Func; that adapter is the one the
\* registry holds unless a handler called during the constructor call has
\* replaced the registry entry by applying a Func to the Canvas.  A hook
\* registered only in that way is in the registry and not on the instance.
C25_SuccessMeansRegistered ==
    [][\A r \in Sessions :
        ReturnsNil(r) =>
            /\ pc'[r] = "done"
            /\ sketch'[r] = "sync"
            /\ inst'[r] # NoInst
            /\ canvas'[r].p5Instance # UndefinedRef
            /\ canvas'[r].p5Instance = inst'[r].id
            /\ \A h \in {"setup", "draw"} :
                  /\ h \in DOMAIN canvas'[r].funcHandlers
                  /\ h \in DOMAIN inst'[r].props <=>
                         h \in DOMAIN BoundRegistry(r)
                  /\ h \in DOMAIN BoundRegistry(r) =>
                         /\ inst'[r].props[h] = BoundRegistry(r)[h]
                         /\ inst'[r].props[h].handler =
                                prog[r].fs[LastIndex(prog[r].fs, h)].handler
                         /\ canvas'[r].funcHandlers[h] = BoundRegistry(r)[h] =>
                                inst'[r].props[h] = canvas'[r].funcHandlers[h]]_vars

\* Run has returned nil for the list Draw, MousePressed: the constructor
\* called draw, a handler applied Setup to the Canvas, and Validate found
\* setup in the registry; draw is installed with the registry's adapter,
\* setup is not installed
C25_Witness ==
    /\ result[1] = "nil"
    /\ pc[1] = "done"
    /\ prog[1].fs = <<Draw("fnA"), MousePressed("fnB")>>
    /\ calls["fnA"] = 1
    /\ LastMethodIs("Func")
    /\ lastCall.on = 1
    /\ lastCall.hook = "setup"
    /\ "setup" \in DOMAIN canvas[1].funcHandlers
    /\ "setup" \notin DOMAIN inst[1].props
    /\ inst[1].props["draw"] = canvas[1].funcHandlers["draw"]
    /\ inst[1].props["draw"].handler = "fnA"

\* C26: two executions of the same Run call, on the same list and the same
\* host state, that range over the registry in whatever two orders have,
\* from the closure's return on, the same hook properties on the instance
\* and the same registry, and return the same value.
C26_OrderIndependent ==
    /\ (sketch[1] = "sync" /\ sketch[2] = "sync") =>
          /\ inst[1].props = inst[2].props
          /\ canvas[1] = canvas[2]
          /\ DOMAIN inst[1].props = HooksOf(prog[1].fs)
    /\ (pc[1] = "done" /\ pc[2] = "done") => result[1] = result[2]

C26_Witness ==
    /\ pc[1] = "done"
    /\ pc[2] = "done"
    /\ trace[1] = <<"setup", "draw", "mousePressed">>
    /\ trace[2] = <<"mousePressed", "draw", "setup">>
    /\ inst[1].props = inst[2].props
    /\ calls["fnA"] = 2
    /\ result[1] = "nil"
    /\ result[2] = "nil"
    /\ events = 2

\* C27: every Canvas the API hands out, the one Run creates and the one
\* CreateGraphics returns, has a non-nil handler registry, and no
\* application of a Func to one of them faults.
C27_RegistryInitialized ==
    /\ \A k \in DOMAIN canvas :
         canvas[k] # NoCanvas => ~MapIsNil(canvas[k].funcHandlers)
    /\ ~(fault /\ "method" \in DOMAIN lastCall /\ lastCall.method = "Func")

\* C28: in the package-level API, a step installs an event adapter for a
\* name only if the host global defines the name at that step (the step in
\* which Init's sketch closure runs); and an installed adapter, called with
\* at least one argument, calls the handler that eventHandlers holds for the
\* name at the call, once, with the first argument, and calls nothing when
\* the map holds none.
C28_AdapterByName ==
    [][\A r \in Sessions : \A i \in DOMAIN EventNames :
         LET name == EventNames[i]
         IN /\ (/\ inst'[r] # NoInst
                /\ name \in DOMAIN inst'[r].props
                /\ (inst[r] = NoInst \/ name \notin DOMAIN inst[r].props))
               => /\ name \in global
                  /\ p5Instance' = r
                  /\ inst'[r].props[name] = EventAdapter(name)
            /\ (/\ events' = events + 1
                /\ lastCall'.on = r
                /\ lastCall'.name = name
                /\ Len(lastCall'.args) >= 1)
               => /\ name \in DOMAIN inst[r].props
                  /\ ~fault'
                  /\ IF name \in DOMAIN eventHandlers
                     THEN /\ calls' = [calls EXCEPT ![eventHandlers[name]] = @ + 1]
                          /\ lastCall'.handler = eventHandlers[name]
                          /\ lastCall'.arg = lastCall'.args[1]
                     ELSE /\ calls' = calls
                          /\ lastCall'.handler = "none"]_vars

\* fnA was called through the adapter, then fnB, registered in its place
\* after Init, was called with the first of two arguments; keyPressed,
\* defined by the host only after Init, has no adapter
C28_Witness ==
    /\ p5Instance = 1
    /\ DOMAIN inst[1].props = {"mousePressed"}
    /\ "keyPressed" \in global
    /\ calls["fnA"] = 1
    /\ calls["fnB"] = 1
    /\ "method" \notin DOMAIN lastCall
    /\ lastCall.handler = "fnB"
    /\ lastCall.name = "mousePressed"
    /\ lastCall.args = <<"evA", "evB">>
    /\ lastCall.arg = "evA"
    /\ eventHandlers = [n \in {"mousePressed"} |-> "fnB"]

====
